---- MODULE Spec2Model ----
(***************************************************************************)
(* Model of the PSX TMesh exporter (psx_tmesh_exporter_addon/exportpsx.py, *)
(* class ExportPSX).                                                       *)
(*                                                                         *)
(* The exporter is an object whose stage methods are driven by the host:   *)
(* execute() resets the VRAM layout and renders the precomputed            *)
(* backgrounds, write_level_c_h() walks the scene.  Nothing in the class   *)
(* catches an exception, so a method that raises returns to the host with  *)
(* the object's attributes as they were at the raise; `raised` records the *)
(* exception of the last call.                                             *)
(*                                                                         *)
(* What is modelled: the data flow of the packer, the partitioner, the     *)
(* flattener and the visibility resolver, with Python's name resolution (a *)
(* name assigned anywhere in a function is local to it, and reading it     *)
(* before the assignment raises UnboundLocalError; reading an attribute    *)
(* that was never assigned raises AttributeError).                         *)
(* The level file is modelled as the sequence of the records written to   *)
(* it (a definition with the names it refers to, or a placeholder token),  *)
(* and a symbol as its type, its name with the object's name left out,     *)
(* and the object.                                                         *)
(* What is not modelled: the numbers and the layout of the emitted text,   *)
(* the cleaning of object names, file and converter I/O, and the           *)
(* configuration of the host scene (set_resolution, set_context_area,      *)
(* setup_paths).  Host queries (ray casts, frame tests, vertex positions)  *)
(* are inputs.                                                             *)
(*                                                                         *)
(* Spec is the export run (execute, export_backgrounds, write_level_c_h up *)
(* to the portals); SpecPart, SpecAnim and SpecCam are one stage each on   *)
(* the scenes it can be handed: populate_spatial_partitioning, writeVANIM, *)
(* and the object loop of write_level_c_h with populate_cam_angle.         *)
(* SpecLevel is one whole call of write_level_c_h on a scene of untextured *)
(* meshes, lamps and speakers.                                             *)
(* SpecNla is bakeActionToNLA and parse_anim on one animated object, and   *)
(* SpecSound is parse_speaker and writeVAGbank, and SpecGeom is the vertex *)
(* and normal arrays populate_mesh writes for one mesh.  SpecInPlane,      *)
(* SpecBodies and SpecSubst are isInPlane, the loop over the moveables of  *)
(* populate_spatial_partitioning and the substitution of the placeholders  *)
(* of write_level_c_h, each on the inputs it reads.                        *)
(***************************************************************************)
EXTENDS Integers, Sequences, FiniteSets, TLC

(***************************************************************************)
(* Bounds of the model.                                                    *)
(***************************************************************************)
MaxCams == 2      \* camPath cameras rendered by one export_backgrounds call
MaxBgCalls == 4   \* export_backgrounds calls made by the host in one run
MaxRuns == 2      \* execute() calls on one exporter object
MaxMeshes == 2    \* meshes walked by one write_level_c_h call
MaxCoord == 2     \* plane corners lie on the grid 0..MaxCoord
MaxPlanes == 3    \* level planes of a scene
MaxFrames == 3    \* frames of a strip
MaxVerts == 2     \* vertices of an animated mesh
MaxSamples == 4   \* frames x vertices of a strip
MaxScale == 2     \* exp_Scale
MaxObjects == 2   \* meshes of a scene
MaxPortals == 3   \* portals of a scene
MaxDist == 2      \* squared distances of the portals from the camera
MaxCamAngles == 1 \* cameras of camAngles in one export
MaxSceneMeshes == 3   \* meshes of a scene handed to write_level_c_h as a whole
MaxTracks == 3     \* NLA tracks of an animated object
MaxFrame == 3      \* last frame of a strip or an action
MaxBakes == 2      \* calls of bakeActionToNLA on one object
MaxSounds == 3     \* sounds of a list handed to writeVAGbank
MaxPaths == 2      \* distinct converted paths of these sounds
MaxSpeakerCalls == 10   \* calls of parse_speaker on one exporter
MaxGrid == 3       \* box corners handed to isInPlane lie on the grid 0..MaxGrid
MaxBodies == 2     \* rigid bodies of a scene
MaxNamed == 3      \* meshes whose placeholders are substituted

(***************************************************************************)
(* Program constants.                                                      *)
(***************************************************************************)
None == 0 - 1           \* Python None: the attributes before execute()
ResolutionX == 320      \* ResMode.PAL[0] = ResMode.NTSC[0]
InitNextTpage == 320
InitNextClutSlot == 480
InitFreeTpage == 21
InitFreeClutSlot == 32
CellWidth == 64
Row0Limit == 1024
Row256Limit == 960
Row256 == 256

VARIABLES
    \* ExportPSX attributes
    nextTpage, nextClutSlot, freeTpage, freeClutSlot, tpageY,
    TIMbpp, TIMshift, exp_Precalc, level_symbols,
    \* the host's position in the call protocol and the outcome of its last call
    pc, raised, runs, bgCalls, written, meshesLeft,
    \* history (not read by the code)
    placed, reports, switches, cursorResets, lastReq,
    \* populate_spatial_partitioning: the scene it reads, and what it produced
    LvlPlanes, actorBox, nodes, nodePtr, partRaised, pcPart,
    \* writeVANIM: the strip's vertex positions, and the clips written for it
    strip, exp_Scale, clipC, clipA,
    \* populate_cam_angle: the scene's meshes and portals, the ray targets
    \* collected by parse_mesh, and what the last call computed and wrote
    isRayTarget, nPortals, rayTargets, passes, camCalls,
    camQualified, camDist, camPortals, camTargets, camRaised, camQuads,
    \* history: the host's answers to the ray casts towards the ray targets
    camAnswers,
    \* write_level_c_h as a whole: the scene it walks, the level file and the
    \* header it leaves behind, and how the call ended
    scene, hasLamps, hasSpeakers, body, header, levelRaised, pcLevel,
    \* an animated object: its animation data as the host holds it, the
    \* option and the clips of parse_anim, and the calls made on it
    animation_data, action, nla_tracks, exp_mixOverlapingStrips, clips,
    bakes, pcNla,
    \* the sound stages: the exporter's sound attributes, the streaming
    \* speakers parsed in this export and what the last one was given, and
    \* the list handed to writeVAGbank with the bank written for it
    soundFiles, freeXAfile, freeXAchannel, xaIngested, lastXA, speakerCalls,
    soundRaised, pcSound, soundList, VAGBank, sampleIndex, vagRaised, pcVag,
    soundObjects,
    \* populate_mesh on one mesh: its vertices, the rows written to the level
    \* file for it, and how the call ended
    vertices, meshFile, geomRaised, pcGeom,
    \* one call of isInPlane: its arguments and what it returned
    inPlane,
    \* the loop over Moveables of populate_spatial_partitioning: the list it
    \* is handed and the dicts it fills
    Moveables, PlanesRigidBodies, PropPlane, pcBodies,
    \* the substitution of the placeholders in the level file: the names of
    \* the meshes, self.PropPlane as the loop reads it, and the file's text
    meshNames, propPlanes, newdata, pcSubst

packerVars == <<nextTpage, nextClutSlot, freeTpage, freeClutSlot, tpageY,
                TIMbpp, TIMshift, exp_Precalc>>
hostVars == <<pc, raised, runs, bgCalls, written, meshesLeft>>
histVars == <<placed, reports, switches, cursorResets, lastReq>>
partVars == <<LvlPlanes, actorBox, nodes, nodePtr, partRaised, pcPart>>
animVars == <<strip, exp_Scale, clipC, clipA>>
exporterVars == <<packerVars, level_symbols, hostVars, histVars>>
camVars == <<isRayTarget, nPortals, rayTargets, passes, camCalls,
             camQualified, camDist, camPortals, camTargets, camRaised,
             camQuads, camAnswers>>
levelVars == <<scene, hasLamps, hasSpeakers, body, header, levelRaised, pcLevel>>
nlaVars == <<animation_data, action, nla_tracks, exp_mixOverlapingStrips, clips,
             bakes, pcNla>>
soundVars == <<soundFiles, freeXAfile, freeXAchannel, xaIngested, lastXA,
               speakerCalls, soundRaised, pcSound, soundList, VAGBank,
               sampleIndex, vagRaised, pcVag, soundObjects>>
geomVars == <<vertices, meshFile, geomRaised, pcGeom>>
bodyVars == <<Moveables, PlanesRigidBodies, PropPlane, pcBodies>>
substVars == <<meshNames, propPlanes, newdata, pcSubst>>
callVars == <<geomVars, inPlane, bodyVars, substVars>>
notPackerVars == <<partVars, animVars, camVars, levelVars, nlaVars, soundVars,
                   callVars>>
notPartVars == <<exporterVars, animVars, camVars, levelVars, nlaVars, soundVars,
                 callVars>>
notAnimVars == <<exporterVars, partVars, camVars, levelVars, nlaVars, soundVars,
                 callVars>>
notCamVars == <<packerVars, hostVars, histVars, partVars, animVars, levelVars,
                nlaVars, soundVars, callVars>>
notLevelVars == <<packerVars, hostVars, histVars, partVars, animVars, camVars,
                  nlaVars, soundVars, callVars>>
notNlaVars == <<packerVars, hostVars, histVars, partVars, animVars, camVars,
                levelVars, soundVars, callVars>>
notSoundVars == <<packerVars, hostVars, histVars, partVars, animVars, camVars,
                  levelVars, nlaVars, callVars>>
notGeomVars == <<exporterVars, partVars, camVars, levelVars, nlaVars, soundVars,
                 strip, clipC, clipA, inPlane, bodyVars, substVars>>
notInPlaneVars == <<exporterVars, partVars, animVars, camVars, levelVars, nlaVars,
                    soundVars, geomVars, bodyVars, substVars>>
notBodyVars == <<exporterVars, partVars, animVars, camVars, levelVars, nlaVars,
                 soundVars, geomVars, inPlane, substVars>>
notSubstVars == <<exporterVars, partVars, animVars, camVars, levelVars, nlaVars,
                  soundVars, geomVars, inPlane, bodyVars>>
vars == <<exporterVars, partVars, animVars, camVars, levelVars, nlaVars,
          soundVars, callVars>>

(***************************************************************************)
(* Python arithmetic.                                                      *)
(***************************************************************************)
RECURSIVE Pow2(_)
Pow2(n) == IF n = 0 THEN 1 ELSE 2 * Pow2(n - 1)

\* a >> n for a >= 0
ShiftRight(a, n) == a \div Pow2(n)

\* math.ceil(a / 64) for a >= 0
CeilDiv(a, d) == (a + d - 1) \div d

(***************************************************************************)
(* The packer state passed through the operators below: the five VRAM      *)
(* attributes, the history, and the exception raised so far ("none").      *)
(***************************************************************************)
Self == [nextTpage |-> nextTpage, nextClutSlot |-> nextClutSlot,
         freeTpage |-> freeTpage, freeClutSlot |-> freeClutSlot,
         tpageY |-> tpageY, placed |-> placed, reports |-> reports,
         switches |-> switches, cursorResets |-> cursorResets,
         raised |-> "none"]

Raise(s, exc) == [s EXCEPT !.raised = exc]

\* the shift VramIsFull and setNextTimPos derive from TIMbpp
BppShift(bpp) == IF bpp = 8 THEN 1 ELSE IF bpp = 4 THEN 2 ELSE 0

\* imageWidthInTPage of VramIsFull and setNextTimPos
WidthInTPage(bpp, size) == CeilDiv(ShiftRight(size, BppShift(bpp)), CellWidth)

\* ExportPSX.VramIsFull: TRUE when the image does not fit at the cursor
VramIsFull(s, bpp, size) ==
    LET imageWidthInTPage == WidthInTPage(bpp, size) IN
    IF /\ s.tpageY = 0
       /\ s.nextTpage + imageWidthInTPage * CellWidth < Row0Limit
       /\ s.freeTpage - imageWidthInTPage > 0
    THEN FALSE
    ELSE IF /\ s.tpageY = Row256
            /\ s.nextTpage + imageWidthInTPage * CellWidth < Row256Limit
            /\ s.freeTpage - imageWidthInTPage > 1
         THEN FALSE
         ELSE TRUE

\* a call of convertBGtoTIM(timX, timY, clutY): the image is written to VRAM
Place(s, timX, timY, clutY, cells) ==
    [s EXCEPT !.placed = Append(@, [timX |-> timX, timY |-> timY,
                                    clutY |-> clutY, cells |-> cells])]

\* the statements `tpageY = 256; nextTpage = 320` on the attributes
SwitchRow(s) ==
    [s EXCEPT !.tpageY = Row256, !.nextTpage = InitNextTpage,
              !.switches = @ + (IF s.tpageY = 0 THEN 1 ELSE 0),
              !.cursorResets = @ + 1]

\* A local name of a function body: unbound until the function assigns it.
Unbound == [bound |-> FALSE, val |-> 0]
NoBox == [x1 |-> 0, x2 |-> 0, y1 |-> 0, y2 |-> 0]
Bound(v) == [bound |-> TRUE, val |-> v]

(***************************************************************************)
(* ExportPSX.setNextTimPos(imageWidth).  The function assigns `tpageY`     *)
(* (line 2808), so the name is local to it; it is unbound when the first   *)
(* test reads it (line 2790).  `tpageY0` is the binding at entry.          *)
(***************************************************************************)
setNextTimPosFrom(s, bpp, imageWidth, tpageY0) ==
    LET imageWidthInTPage == WidthInTPage(bpp, imageWidth)
        advanced == [s EXCEPT !.nextTpage = @ + imageWidthInTPage * CellWidth,
                              !.freeTpage = @ - imageWidthInTPage,
                              !.nextClutSlot = @ + 1,
                              !.freeClutSlot = @ - 1]
    IN IF ~tpageY0.bound
       THEN Raise(s, "UnboundLocalError")
       ELSE IF /\ tpageY0.val = 0
               /\ s.nextTpage + imageWidthInTPage * CellWidth < Row0Limit
               /\ s.freeTpage - imageWidthInTPage > 0
            THEN advanced
            ELSE IF /\ tpageY0.val = Row256
                    /\ s.nextTpage + imageWidthInTPage * CellWidth < Row256Limit
                    /\ s.freeTpage - imageWidthInTPage > 1
                 THEN advanced
                 ELSE \* the local tpageY becomes 256; the attribute is not touched
                      [s EXCEPT !.nextTpage = InitNextTpage,
                                !.cursorResets = @ + 1,
                                !.nextClutSlot = @ + 1,
                                !.freeClutSlot = @ - 1]

setNextTimPos(s, bpp, imageWidth) == setNextTimPosFrom(s, bpp, imageWidth, Unbound)

Report(s) == [s EXCEPT !.reports = @ + 1]

(***************************************************************************)
(* The TIM block of ExportPSX.populate_mesh (lines 1139-1230) for a mesh   *)
(* whose texture is not in timList yet.  The function assigns `tpageY` and *)
(* `nextTpage` (lines 1179-1180), so both names are local to populate_mesh *)
(* and nothing binds them before the block; `nextTpage0` and `tpageY0` are *)
(* the bindings at the block's entry.  The fit test is made with the       *)
(* render width, not the texture's.                                        *)
(***************************************************************************)
populate_mesh_TIM_From(s, bpp, texWidth, nextTpage0, tpageY0) ==
    IF ~VramIsFull(s, bpp, ResolutionX)
    THEN IF ~nextTpage0.bound \/ ~tpageY0.bound
         THEN Raise(s, "UnboundLocalError")          \* timX=nextTpage, line 1170
         ELSE \* setNextTimPos receives the image object: `imageWidth >> shift`
              Raise(Place(s, nextTpage0.val, tpageY0.val, s.nextClutSlot,
                          WidthInTPage(bpp, texWidth)), "TypeError")
    ELSE IF ~tpageY0.bound
         THEN Raise(s, "UnboundLocalError")          \* tpageY == 0, line 1177
         ELSE IF tpageY0.val = 0
              THEN \* the locals move to row 256; VramIsFull reads the attributes
                   IF ~VramIsFull(s, bpp, ResolutionX)
                   THEN Raise(Place(s, InitNextTpage, Row256, s.nextClutSlot,
                                    WidthInTPage(bpp, texWidth)), "TypeError")
                   ELSE Report(s)
              ELSE Report(s)

populate_mesh_TIM(s, bpp, texWidth) ==
    populate_mesh_TIM_From(s, bpp, texWidth, Unbound, Unbound)

(***************************************************************************)
(* ExportPSX.export_backgrounds with n camPath cameras.  Every camera is   *)
(* converted at the cursor as it stands; the cursor moves once, after the  *)
(* loop (lines 2395-2398).  Line 2383 reads scene.resolution_x, which the  *)
(* host scene may or may not define (the width is read from scene.render   *)
(* everywhere else): hasResX is the host's answer.                         *)
(***************************************************************************)
RECURSIVE BgLoop(_, _, _, _)
BgLoop(s, bpp, n, hasResX) ==
    IF n = 0 \/ s.raised # "none"
    THEN s
    ELSE LET cells == WidthInTPage(bpp, ResolutionX)
             one == IF ~VramIsFull(s, bpp, ResolutionX)
                    THEN Place(s, s.nextTpage, s.tpageY, s.nextClutSlot, cells)
                    ELSE LET sw == SwitchRow(s) IN
                         IF ~hasResX
                         THEN Raise(sw, "AttributeError")
                         ELSE IF ~VramIsFull(sw, bpp, ResolutionX)
                              THEN Place(sw, sw.nextTpage, sw.tpageY,
                                         sw.nextClutSlot, cells)
                              ELSE sw
         IN BgLoop(one, bpp, n - 1, hasResX)

export_backgrounds(s, bpp, shift, n, hasResX) ==
    LET timSize == ShiftRight(ResolutionX, shift)
        timSizeInCell == CeilDiv(timSize, CellWidth)
        after == BgLoop(s, bpp, n, hasResX)
    IN IF after.raised # "none"
       THEN after
       ELSE [after EXCEPT !.nextTpage = @ + timSizeInCell * CellWidth,
                          !.freeTpage = @ - timSizeInCell,
                          !.nextClutSlot = @ + 1,
                          !.freeClutSlot = @ - 1]

(***************************************************************************)
(* Symbols appended to level_symbols: <<type, name, object>>, the name as  *)
(* the code builds it with the object's name left out.                     *)
(***************************************************************************)
Sym(type, name, k) == <<type, name, k>>

\* populate_mesh, lines 866-1121: the symbols appended before the TIM block
MeshSymbols(k, hasTex) ==
    <<Sym("SVECTOR", "model_mesh[]", k),
      Sym("SVECTOR", "fileName_model_normal[]", k)>>
    \o (IF hasTex THEN <<Sym("SVECTOR", "fileName_model_uv[]", k)>> ELSE <<>>)
    \o <<Sym("CVECTOR", "fileName_model_color[]", k),
         Sym("BODY", "fileName_model_body", k),
         Sym("TMESH", "fileName_model", k)>>

NoReq == [made |-> FALSE, fitsNeither |-> FALSE, reported |-> FALSE,
          placed |-> FALSE, aborted |-> FALSE]

\* the texture fits neither at the cursor nor at the start of row 256
FitsNeither(s, bpp, size) ==
    /\ VramIsFull(s, bpp, size)
    /\ s.tpageY = 0 =>
          VramIsFull([s EXCEPT !.tpageY = Row256, !.nextTpage = InitNextTpage],
                     bpp, size)

(***************************************************************************)
(* Actions.                                                                *)
(***************************************************************************)
Apply(s) ==
    /\ nextTpage' = s.nextTpage
    /\ nextClutSlot' = s.nextClutSlot
    /\ freeTpage' = s.freeTpage
    /\ freeClutSlot' = s.freeClutSlot
    /\ tpageY' = s.tpageY
    /\ placed' = s.placed
    /\ reports' = s.reports
    /\ switches' = s.switches
    /\ cursorResets' = s.cursorResets
    /\ raised' = s.raised

\* ExportPSX.__init__
InitExporter ==
    /\ nextTpage = None /\ nextClutSlot = None /\ freeTpage = None
    /\ freeClutSlot = None /\ tpageY = None
    /\ TIMbpp = None /\ TIMshift = None     \* TIMbpp: first assigned by execute
    /\ exp_Precalc \in BOOLEAN
    /\ level_symbols = <<>>
    /\ pc = "new" /\ raised = "none" /\ runs = 0 /\ bgCalls = 0
    /\ written = FALSE /\ meshesLeft = 0
    /\ placed = <<>> /\ reports = 0 /\ switches = 0 /\ cursorResets = 0
    /\ lastReq = NoReq

\* no scene has been handed to the partitioner
NoScene ==
    /\ LvlPlanes = <<>> /\ actorBox = NoBox /\ nodes = <<>> /\ nodePtr = 0
    /\ partRaised = "none" /\ pcPart = "off"

\* no strip has been handed to the animation flattener
NoStrip == strip = <<>> /\ exp_Scale = 1 /\ clipC = <<>> /\ clipA = <<>>

\* no call of the visibility resolver has been made
NoCamCall ==
    /\ camQualified = <<>> /\ camDist = <<>> /\ camPortals = <<>>
    /\ camTargets = <<>> /\ camRaised = "none" /\ camQuads = <<>>
    /\ camAnswers = <<>>

\* no scene has been handed to the visibility resolver
NoCam ==
    /\ isRayTarget = <<>> /\ nPortals = 0 /\ rayTargets = <<>>
    /\ passes = 0 /\ camCalls = 0
    /\ NoCamCall

\* no scene has been handed to write_level_c_h as a whole
NoLevel ==
    /\ scene = <<>> /\ hasLamps = FALSE /\ hasSpeakers = FALSE
    /\ body = <<>> /\ header = <<>> /\ levelRaised = "none" /\ pcLevel = "off"

\* an action or a strip: the frames it spans
NoAction == [frame_start |-> 0, frame_end |-> 0]

\* no animated object has been handed to the animation stages
NoNla ==
    /\ animation_data = FALSE /\ action = NoAction /\ nla_tracks = <<>>
    /\ exp_mixOverlapingStrips = FALSE /\ clips = <<>> /\ bakes = 0
    /\ pcNla = "off"

NoXA == [made |-> FALSE, k |-> 0, XAfile |-> 0, XAchannel |-> 0, stored |-> FALSE]
NoBank == [written |-> FALSE, index |-> 0, entries |-> <<>>]
NoObjects == [written |-> FALSE, objects |-> <<>>]

\* ExportPSX.__init__, lines 200-208: the sound attributes
InitSound ==
    /\ soundFiles = None /\ freeXAfile = 0 /\ freeXAchannel = 0
    /\ xaIngested = 0 /\ lastXA = NoXA /\ speakerCalls = 0
    /\ soundRaised = "none"

\* no list of sounds has been handed to writeVAGbank
NoSoundList ==
    /\ soundList = <<>> /\ VAGBank = NoBank /\ sampleIndex = <<>>
    /\ vagRaised = "none" /\ pcVag = "off" /\ soundObjects = NoObjects

\* the sound stages are not driven
NoSound == InitSound /\ pcSound = "off" /\ NoSoundList

\* no mesh has been handed to populate_mesh on its own
NoGeom ==
    vertices = <<>> /\ meshFile = <<>> /\ geomRaised = "none" /\ pcGeom = "off"

\* isInPlane has not been called on its own
NoInPlane == inPlane = [plane |-> NoBox, obj |-> NoBox, returned |-> None]

\* the loop over Moveables is not run on its own
NoBodies ==
    /\ Moveables = <<>> /\ PlanesRigidBodies = <<>> /\ PropPlane = <<>>
    /\ pcBodies = "off"

\* the substitution is not run on its own
NoSubst ==
    meshNames = <<>> /\ propPlanes = <<>> /\ newdata = <<>> /\ pcSubst = "off"

NoCalls == NoGeom /\ NoInPlane /\ NoBodies /\ NoSubst

Init ==
    InitExporter /\ NoScene /\ NoStrip /\ NoCam /\ NoLevel /\ NoNla /\ NoSound
    /\ NoCalls

\* ExportPSX.execute, lines 211-234: the start of an export
execute ==
    /\ pc \in {"new", "idle"}
    /\ runs < MaxRuns
    /\ \E exp_TIMbpp \in BOOLEAN, precalc \in BOOLEAN :
          /\ nextTpage' = InitNextTpage
          /\ nextClutSlot' = InitNextClutSlot
          /\ freeTpage' = InitFreeTpage
          /\ freeClutSlot' = InitFreeClutSlot
          /\ tpageY' = 0
          /\ TIMbpp' = (IF exp_TIMbpp THEN 4 ELSE 8)
          /\ TIMshift' = (IF exp_TIMbpp THEN 0 ELSE 1)
          /\ exp_Precalc' = precalc
    /\ pc' = "reset"
    /\ raised' = "none"
    /\ runs' = runs + 1
    /\ bgCalls' = 0 /\ written' = FALSE /\ meshesLeft' = 0
    /\ placed' = <<>> /\ reports' = 0 /\ switches' = 0 /\ cursorResets' = 0
    /\ lastReq' = NoReq
    /\ UNCHANGED level_symbols
    /\ UNCHANGED notPackerVars

\* ExportPSX.execute, lines 236-238
execute_precalc ==
    /\ pc = "reset"
    /\ IF exp_Precalc
       THEN \E n \in 0..MaxCams, hasResX \in BOOLEAN :
               Apply(export_backgrounds(Self, TIMbpp, TIMshift, n, hasResX))
       ELSE Apply(Self)
    /\ pc' = "idle"
    /\ UNCHANGED <<TIMbpp, TIMshift, exp_Precalc, level_symbols, runs, bgCalls,
                   written, meshesLeft, lastReq>>
    /\ UNCHANGED notPackerVars

\* the host calls export_backgrounds() again in the same run
call_export_backgrounds ==
    /\ pc = "idle"
    /\ bgCalls < MaxBgCalls
    /\ \E n \in 0..MaxCams, hasResX \in BOOLEAN :
          Apply(export_backgrounds(Self, TIMbpp, TIMshift, n, hasResX))
    /\ bgCalls' = bgCalls + 1
    /\ UNCHANGED <<TIMbpp, TIMshift, exp_Precalc, level_symbols, pc, runs,
                   written, meshesLeft, lastReq>>
    /\ UNCHANGED notPackerVars

\* the host calls setNextTimPos(imageWidth)
call_setNextTimPos ==
    /\ pc = "idle"
    /\ \E imageWidth \in {64, 256} :
          Apply(setNextTimPos(Self, TIMbpp, imageWidth))
    /\ UNCHANGED <<TIMbpp, TIMshift, exp_Precalc, level_symbols, pc, runs,
                   bgCalls, written, meshesLeft, lastReq>>
    /\ UNCHANGED notPackerVars

\* ExportPSX.write_level_c_h, lines 2032-2077, for a scene of n meshes
write_level_c_h ==
    /\ pc = "idle"
    /\ ~written
    /\ level_symbols' = level_symbols
          \o <<Sym("LEVEL", "fileName", 0), Sym("CVECTOR", "fileName_BGc", 0),
               Sym("VECTOR", "fileName_BKc", 0)>>
    /\ \E n \in 0..MaxMeshes : meshesLeft' = n
    /\ pc' = "meshes"
    /\ raised' = "none"
    /\ UNCHANGED <<packerVars, runs, bgCalls, written, histVars>>
    /\ UNCHANGED notPackerVars

\* ExportPSX.populate_mesh for the next mesh of the loop at line 2078
populate_mesh ==
    /\ pc = "meshes"
    /\ meshesLeft > 0
    /\ \E hasTex \in BOOLEAN, texWidth \in {64, 256} :
          LET k == meshesLeft
              s == IF hasTex THEN populate_mesh_TIM(Self, TIMbpp, texWidth)
                   ELSE Self
              ok == s.raised = "none"
          IN /\ Apply(s)
             /\ level_symbols' = level_symbols \o MeshSymbols(k, hasTex)
                   \o (IF ok THEN <<Sym("MESH", "fileName_mesh", k)>> ELSE <<>>)
             /\ lastReq' = IF hasTex
                           THEN [made |-> TRUE,
                                 fitsNeither |-> FitsNeither(Self, TIMbpp, texWidth),
                                 reported |-> s.reports > reports,
                                 placed |-> Len(s.placed) > Len(placed),
                                 aborted |-> ~ok]
                           ELSE lastReq
             /\ pc' = IF ok THEN "meshes" ELSE "idle"
             /\ meshesLeft' = IF ok THEN meshesLeft - 1 ELSE 0
             /\ written' = ~ok
    /\ UNCHANGED <<TIMbpp, TIMshift, exp_Precalc, runs, bgCalls>>
    /\ UNCHANGED notPackerVars

\* ExportPSX.write_level_c_h after the mesh loop, lines 2081-2089:
\* populate_portals appends its two symbols.  The stages that follow are
\* the subject of SpecCam and SpecPart.
populate_portals ==
    /\ pc = "meshes"
    /\ meshesLeft = 0
    /\ level_symbols' = level_symbols
          \o <<Sym("MESH *", "fileName_meshes[]", 0),
               Sym("int", "fileName_meshes_length", 0)>>
    /\ pc' = "idle"
    /\ written' = TRUE
    /\ UNCHANGED <<packerVars, raised, runs, bgCalls, meshesLeft, histVars>>
    /\ UNCHANGED notPackerVars

Next ==
    \/ execute
    \/ execute_precalc
    \/ call_export_backgrounds
    \/ call_setNextTimPos
    \/ write_level_c_h
    \/ populate_mesh
    \/ populate_portals

Spec == Init /\ [][Next]_vars

(***************************************************************************)
(* The spatial partitioner: ExportPSX.populate_spatial_partitioning.       *)
(* Coordinates are world coordinates in thousandths; a bounding box is     *)
(* [x1, x2, y1, y2] with x1 < x2 and y1 < y2.  LvlPlanes is the dict of    *)
(* the level planes' boxes in insertion order, keyed here by position.     *)
(***************************************************************************)
Unit == 1000
Coords == {k * Unit : k \in 0..MaxCoord}
Boxes == {b \in [x1 : Coords, x2 : Coords, y1 : Coords, y2 : Coords] :
             b.x1 < b.x2 /\ b.y1 < b.y2}

\* round half to even of v to a multiple of q
RoundTo(v, q) ==
    LET r == v % q
        lo == v - r
    IN IF 2 * r < q THEN lo
       ELSE IF 2 * r > q THEN lo + q
       ELSE IF (lo \div q) % 2 = 0 THEN lo ELSE lo + q

\* round(val, 4) of a product of two coordinates
Round4(v) == RoundTo(v, (Unit * Unit) \div 10000)

\* isInPlane with the containment test made strict
isInPlaneStrict(plane, obj) ==
    IF (plane.x1 < obj.x1 /\ plane.x2 > obj.x2)
       /\ (plane.y1 < obj.y1 /\ plane.y2 > obj.y2)
    THEN 1
    ELSE IF (plane.x1 >= obj.x1 /\ plane.x1 <= obj.x2)
            /\ (plane.y1 <= obj.y2 /\ plane.y2 >= obj.y1)
    THEN 4
    ELSE IF (plane.x2 <= obj.x2 /\ plane.x2 >= obj.x1)
            /\ (plane.y1 <= obj.y2 /\ plane.y2 >= obj.y1)
    THEN 6
    ELSE IF (plane.y2 <= obj.y2 /\ plane.y2 >= obj.y1)
            /\ (plane.x1 <= obj.x1 /\ plane.x2 >= obj.x2)
    THEN 8
    ELSE IF (plane.y1 >= obj.y1 /\ plane.y1 <= obj.y2)
            /\ (plane.x1 <= obj.x1 /\ plane.x2 >= obj.x2)
    THEN 2
    ELSE 0

\* ExportPSX.isInPlane
isInPlane(plane, obj) ==
    IF (plane.x1 <= obj.x1 /\ plane.x2 >= obj.x2)
       /\ (plane.y1 <= obj.y1 /\ plane.y2 >= obj.y2)
    THEN 1
    ELSE IF (plane.x1 >= obj.x1 /\ plane.x1 <= obj.x2)
            /\ (plane.y1 <= obj.y2 /\ plane.y2 >= obj.y1)
    THEN 4
    ELSE IF (plane.x2 <= obj.x2 /\ plane.x2 >= obj.x1)
            /\ (plane.y1 <= obj.y2 /\ plane.y2 >= obj.y1)
    THEN 6
    ELSE IF (plane.y2 <= obj.y2 /\ plane.y2 >= obj.y1)
            /\ (plane.x1 <= obj.x1 /\ plane.x2 >= obj.x2)
    THEN 8
    ELSE IF (plane.y1 >= obj.y1 /\ plane.y1 <= obj.y2)
            /\ (plane.x1 <= obj.x1 /\ plane.x2 >= obj.x2)
    THEN 2
    ELSE 0

\* ExportPSX.checkLine
checkLine(lineX1, lineY1, lineX2, lineY2, objX1, objY1, objX2, objY2) ==
    LET val1 == Round4((objX1 - lineX1) * (lineY2 - lineY1)
                       - (objY1 - lineY1) * (lineX2 - lineX1))
        val2 == Round4((objX2 - lineX1) * (lineY2 - lineY1)
                       - (objY2 - lineY1) * (lineX2 - lineX1))
    IN IF val1 > 0 /\ val2 > 0 THEN "front"
       ELSE IF val1 < 0 /\ val2 < 0 THEN "back"
       ELSE IF val1 = 0 /\ val2 = 0 THEN "connected"
       ELSE IF (val1 > 0 /\ val2 = 0) \/ (val1 = 0 /\ val2 > 0) THEN "front"
       ELSE IF (val1 < 0 /\ val2 = 0) \/ (val1 = 0 /\ val2 < 0) THEN "back"
       ELSE "intersect"

(***************************************************************************)
(* ExportPSX.getSepLine(plane, side).  It reads the planes from the        *)
(* attributes self.LvLPlanes and self.LvlPlanes; the planes are a local    *)
(* dict of populate_spatial_partitioning and no statement of the class     *)
(* assigns either attribute.  `attrLvL` and `attrLvl` are the attributes'  *)
(* bindings at the call.                                                   *)
(***************************************************************************)
Line(l) == [raised |-> "none", line |-> l]
NoLine(exc) == [raised |-> exc, line |-> <<0, 0, 0, 0>>]

getSepLineOn(attrLvL, attrLvl, plane, side) ==
    IF ~attrLvL.bound
    THEN NoLine("AttributeError")
    ELSE LET P == attrLvL.val[plane] IN
         IF side = "N"
         THEN IF ~attrLvl.bound
              THEN NoLine("AttributeError")
              ELSE Line(<<P.x1, attrLvl.val[plane].y2, P.x2, attrLvl.val[plane].y2>>)
         ELSE IF side = "S" THEN Line(<<P.x1, P.y1, P.x2, P.y1>>)
         ELSE IF side = "W" THEN Line(<<P.x1, P.y1, P.x1, P.y2>>)
         ELSE Line(<<P.x2, P.y1, P.x2, P.y2>>)

getSepLine(plane, side) == getSepLineOn(Unbound, Unbound, plane, side)

checkSides == <<<<"N", "S">>, <<"S", "N">>, <<"W", "E">>, <<"E", "W">>>>

NoSiblings == [N |-> <<>>, S |-> <<>>, W |-> <<>>, E |-> <<>>]

\* populate_spatial_partitioning, lines 1826-1852: the planes around plane p,
\* from plane op and side k on
RECURSIVE FindSiblings(_, _, _, _, _)
FindSiblings(LP, p, op, k, acc) ==
    IF acc.raised # "none" \/ op > Len(LP) THEN acc
    ELSE IF op = p \/ k > Len(checkSides) THEN FindSiblings(LP, p, op + 1, 1, acc)
    ELSE LET s == checkSides[k]
             l1 == getSepLine(p, s[1])
             l2 == getSepLine(op, s[2])
             next ==
                IF l1.raised # "none" THEN [acc EXCEPT !.raised = l1.raised]
                ELSE IF l2.raised # "none" THEN [acc EXCEPT !.raised = l2.raised]
                ELSE IF /\ checkLine(l1.line[1], l1.line[2], l1.line[3], l1.line[4],
                                     l2.line[1], l2.line[2], l2.line[3], l2.line[4])
                              = "connected"
                        /\ isInPlane(LP[p], LP[op]) # 0
                     THEN [acc EXCEPT !.siblings[s[1]] = Append(@, op)]
                     ELSE acc
         IN FindSiblings(LP, p, op, k + 1, next)

\* populate_spatial_partitioning, lines 1781-1978, from plane p on: the actor's
\* plane becomes the starting node, and each plane's SIBLINGS are written
RECURSIVE PlaneLoop(_, _, _, _)
PlaneLoop(LP, actor, p, acc) ==
    IF acc.raised # "none" \/ p > Len(LP) THEN acc
    ELSE LET onPlane == actor # NoBox /\ isInPlane(LP[p], actor) = 1
             found == FindSiblings(LP, p, 1, 1,
                                   [raised |-> "none", siblings |-> NoSiblings])
             next == IF found.raised # "none"
                     THEN [acc EXCEPT !.raised = found.raised]
                     ELSE [acc EXCEPT !.nodes = Append(@, found.siblings),
                                      !.nodePtr = IF onPlane THEN p ELSE @]
         IN PlaneLoop(LP, actor, p + 1, next)

\* the whole call; nodePtr and levelPtr are locals bound only when the actor
\* stands on a plane, and are read after the loop (line 1995)
populate_spatial_partitioning_result(LP, actor) ==
    LET r == PlaneLoop(LP, actor, 1, [raised |-> "none", nodes |-> <<>>, nodePtr |-> 0])
    IN IF r.raised = "none" /\ r.nodePtr = 0
       THEN [r EXCEPT !.raised = "UnboundLocalError"]
       ELSE r

\* a scene of level planes, with or without an actor mesh
InitPart ==
    /\ InitExporter
    /\ \E n \in 1..MaxPlanes : LvlPlanes \in [1..n -> Boxes]
    /\ actorBox \in Boxes \cup {NoBox}
    /\ nodes = <<>> /\ nodePtr = 0 /\ partRaised = "none" /\ pcPart = "scene"
    /\ NoStrip /\ NoCam /\ NoLevel /\ NoNla /\ NoSound /\ NoCalls

populate_spatial_partitioning ==
    /\ pcPart = "scene"
    /\ LET r == populate_spatial_partitioning_result(LvlPlanes, actorBox)
       IN /\ nodes' = r.nodes
          /\ nodePtr' = r.nodePtr
          /\ partRaised' = r.raised
    /\ pcPart' = "done"
    /\ UNCHANGED <<LvlPlanes, actorBox>>
    /\ UNCHANGED notPartVars

NextPart == populate_spatial_partitioning

SpecPart == InitPart /\ [][NextPart]_vars

(***************************************************************************)
(* ExportPSX.isInPlane on its own, on two boxes of a grid fine enough for  *)
(* a box to lie strictly inside another one.                               *)
(***************************************************************************)
GridBoxes ==
    LET G == {k * Unit : k \in 0..MaxGrid}
    IN {b \in [x1 : G, x2 : G, y1 : G, y2 : G] : b.x1 < b.x2 /\ b.y1 < b.y2}

InitInPlane ==
    /\ InitExporter /\ NoScene /\ NoStrip /\ NoCam /\ NoLevel /\ NoNla /\ NoSound
    /\ NoGeom /\ NoBodies /\ NoSubst
    /\ inPlane \in [plane : GridBoxes, obj : GridBoxes, returned : {None}]

call_isInPlane ==
    /\ inPlane.returned = None
    /\ inPlane' = [inPlane EXCEPT !.returned = isInPlane(inPlane.plane, inPlane.obj)]
    /\ UNCHANGED notInPlaneVars

NextInPlane == call_isInPlane

SpecInPlane == InitInPlane /\ [][NextInPlane]_vars

(***************************************************************************)
(* The loop over Moveables of populate_spatial_partitioning (lines         *)
(* 1811-1824), run for every plane of LvlPlanes on the list it is handed:  *)
(* a moveable is a rigid body that is no level plane, with its box in      *)
(* LvlObjects and its isProp flag.  PlanesRigidBodies[p] is the list       *)
(* "rigidbodies" of plane p (empty when the key is missing), PropPlane[m]  *)
(* the plane recorded for moveable m (0 when the key is missing).          *)
(***************************************************************************)
StripBoxes == {b \in GridBoxes : b.y1 = 0 /\ b.y2 = MaxGrid * Unit}

\* lines 1812-1824 for plane p, from moveable m on
RECURSIVE MoveableLoop(_, _, _, _, _)
MoveableLoop(LP, M, p, m, acc) ==
    IF m > Len(M) THEN acc
    ELSE LET prop == IF M[m].isProp /\ isInPlane(LP[p], M[m].box) # 0
                     THEN [acc.PropPlane EXCEPT ![m] = p]
                     ELSE acc.PropPlane
             list == acc.PlanesRigidBodies[p]
             bodies == IF list # <<>>
                       THEN IF \A i \in 1..Len(list) : list[i] # m
                            THEN Append(list, m) ELSE list
                       ELSE <<m>>
         IN MoveableLoop(LP, M, p, m + 1,
                         [PropPlane |-> prop,
                          PlanesRigidBodies |->
                             [acc.PlanesRigidBodies EXCEPT ![p] = bodies]])

\* the loop of line 1781 over the planes, from plane p on
RECURSIVE AddMoveables(_, _, _, _)
AddMoveables(LP, M, p, acc) ==
    IF p > Len(LP) THEN acc
    ELSE AddMoveables(LP, M, p + 1, MoveableLoop(LP, M, p, 1, acc))

\* the level planes of a scene and the list of its moveables
InitBodies ==
    /\ InitExporter /\ NoStrip /\ NoCam /\ NoLevel /\ NoNla /\ NoSound
    /\ NoGeom /\ NoInPlane /\ NoSubst
    /\ \E n \in 1..MaxPlanes : LvlPlanes \in [1..n -> StripBoxes]
    /\ actorBox = NoBox /\ nodes = <<>> /\ nodePtr = 0
    /\ partRaised = "none" /\ pcPart = "off"
    /\ \E n \in 0..MaxBodies :
          Moveables \in [1..n -> [box : StripBoxes, isProp : BOOLEAN]]
    /\ PlanesRigidBodies = <<>> /\ PropPlane = <<>> /\ pcBodies = "planes"

add_moveables ==
    /\ pcBodies = "planes"
    /\ \E r \in {AddMoveables(LvlPlanes, Moveables, 1,
                     [PropPlane |-> [m \in 1..Len(Moveables) |-> 0],
                      PlanesRigidBodies |-> [p \in 1..Len(LvlPlanes) |-> <<>>]])} :
          /\ PlanesRigidBodies' = r.PlanesRigidBodies
          /\ PropPlane' = r.PropPlane
    /\ pcBodies' = "done"
    /\ UNCHANGED Moveables
    /\ UNCHANGED notBodyVars

NextBodies == add_moveables

SpecBodies == InitBodies /\ [][NextBodies]_vars

(***************************************************************************)
(* Properties of the spatial partitioner.                                  *)
(***************************************************************************)
\* planes a and b have one whole edge in common
SharesFullEdge(a, b) ==
    \/ a.x2 = b.x1 /\ a.y1 = b.y1 /\ a.y2 = b.y2
    \/ a.x1 = b.x2 /\ a.y1 = b.y1 /\ a.y2 = b.y2
    \/ a.y2 = b.y1 /\ a.x1 = b.x1 /\ a.x2 = b.x2
    \/ a.y1 = b.y2 /\ a.x1 = b.x1 /\ a.x2 = b.x2

RECURSIVE Count(_, _)
Count(seq, x) ==
    IF seq = <<>> THEN 0
    ELSE (IF Head(seq) = x THEN 1 ELSE 0) + Count(Tail(seq), x)

\* the entries naming plane q in the sibling lists written for plane p
EntriesFor(p, q) ==
    IF p > Len(nodes) THEN 0
    ELSE Count(nodes[p].N, q) + Count(nodes[p].S, q)
         + Count(nodes[p].W, q) + Count(nodes[p].E, q)

\* C7: for two level planes that share a full edge, the partitioner writes
\* exactly one sibling entry naming the other plane in each plane's lists.
C7_OneEntryPerSharedEdge ==
    pcPart = "done" =>
       \A p, q \in 1..Len(LvlPlanes) :
          (p # q /\ SharesFullEdge(LvlPlanes[p], LvlPlanes[q])) =>
             EntriesFor(p, q) = 1

(***************************************************************************)
(* The animation flattener: ExportPSX.writeVANIM.  A strip is the sequence *)
(* of its frames, a frame the sequence of the evaluated mesh's vertex      *)
(* positions; a position is [x, y, z] in halves of a Blender unit.  A clip *)
(* is the sequence of frames written, a written vertex a triple.           *)
(***************************************************************************)
CoValues == {0 - 3, 1}

Positions == [x : CoValues, y : CoValues, z : CoValues]

\* a strip of nF frames of nV vertices
Strips(nF, nV) == [1..nF -> [1..nV -> Positions]]

\* Python's round() of h halves: to the nearest integer, a tie to the even one
PyRound(h) == RoundTo(h, 2) \div 2

\* writeVANIM, lines 3063-3069: Vector(round(x * s), round(-z * s), round(y * s))
currentVertexOf(co, scale) ==
    <<PyRound(co.x * scale), PyRound((0 - co.z) * scale), PyRound(co.y * scale)>>

Minus(a, b) == <<a[1] - b[1], a[2] - b[2], a[3] - b[3]>>
Plus(a, b) == <<a[1] + b[1], a[2] + b[2], a[3] + b[3]>>

\* writeVANIM, lines 3052-3090: the vertices written for the strip.  The
\* first frame's previousFrameItem is the frame's own list.
writeVANIM_clip(st, scale, exp_CompressAnims) ==
    LET frameList == [f \in 1..Len(st) |->
                        [v \in 1..Len(st[f]) |-> currentVertexOf(st[f][v], scale)]]
        previousFrameItem(f) == IF f > 1 THEN frameList[f - 1] ELSE frameList[f]
    IN [f \in 1..Len(st) |->
          [v \in 1..Len(st[f]) |->
              IF exp_CompressAnims
              THEN Minus(frameList[f][v], previousFrameItem(f)[v])
              ELSE frameList[f][v]]]

\* a strip of an animated mesh, as the host evaluates it
InitAnim ==
    /\ InitExporter /\ NoScene
    /\ \E nF \in 1..MaxFrames, nV \in 1..MaxVerts :
          /\ nF * nV <= MaxSamples
          /\ strip \in Strips(nF, nV)
    /\ exp_Scale \in 1..MaxScale
    /\ clipC = <<>> /\ clipA = <<>>
    /\ NoCam /\ NoLevel /\ NoNla /\ NoSound /\ NoCalls

\* ExportPSX.writeVANIM with exp_CompressAnims set or cleared
writeVANIM ==
    /\ strip # <<>>
    /\ \E exp_CompressAnims \in BOOLEAN :
          IF exp_CompressAnims
          THEN /\ clipC = <<>>
               /\ clipC' = writeVANIM_clip(strip, exp_Scale, TRUE)
               /\ UNCHANGED clipA
          ELSE /\ clipA = <<>>
               /\ clipA' = writeVANIM_clip(strip, exp_Scale, FALSE)
               /\ UNCHANGED clipC
    /\ UNCHANGED <<strip, exp_Scale>>
    /\ UNCHANGED notAnimVars

NextAnim == writeVANIM

SpecAnim == InitAnim /\ [][NextAnim]_vars

(***************************************************************************)
(* Properties of the animation flattener.                                  *)
(***************************************************************************)
\* the cumulative sum of a clip's vertices from frame 0 up to frame f
RECURSIVE CumulativeSum(_, _, _)
CumulativeSum(clip, f, v) ==
    IF f = 1 THEN clip[1][v]
    ELSE Plus(CumulativeSum(clip, f - 1, v), clip[f][v])

Actor == 1
\* hitObject of a ray cast towards a ray target: nothing, a portal, or mesh 1..n
NoHit == 0
PortalHit == 0 - 1

\* the object loop of write_level_c_h, lines 2054-2066: parse_mesh appends
\* every rigid or static body to self.rayTargets (lines 594-600)
RECURSIVE parse_mesh_all(_, _, _)
parse_mesh_all(targets, flags, obj) ==
    IF obj > Len(flags) THEN targets
    ELSE parse_mesh_all(IF flags[obj] THEN Append(targets, obj) ELSE targets,
                        flags, obj + 1)

InSeq(x, seq) == \E i \in 1..Len(seq) : seq[i] = x

\* a Python dict as the sequence of its items in insertion order
DictSet(d, k, v) ==
    IF \E i \in 1..Len(d) : d[i].key = k
    THEN [i \in 1..Len(d) |-> IF d[i].key = k THEN [key |-> k, val |-> v] ELSE d[i]]
    ELSE Append(d, [key |-> k, val |-> v])

\* max(d): the largest key
MaxKey(d) == CHOOSE k \in {d[i].key : i \in 1..Len(d)} :
                \A j \in 1..Len(d) : d[j].key <= k

\* del d[k]
DictDel(d, k) == SelectSeq(d, LAMBDA e : e.key # k)

Reverse(seq) == [i \in 1..Len(seq) |-> seq[Len(seq) + 1 - i]]

\* lines 1422-1435: the portals in frame that the camera's ray reaches
RECURSIVE VisiblePortals(_, _)
VisiblePortals(answers, portal) ==
    IF portal > Len(answers) THEN <<>>
    ELSE (IF answers[portal].inFrame /\ answers[portal].hit = "self"
          THEN <<portal>> ELSE <<>>)
         \o VisiblePortals(answers, portal + 1)

\* lines 1441-1448: testDict[distToTested] = tested, for each visible portal
RECURSIVE FillTestDict(_, _, _)
FillTestDict(testDict, visiblePortal, dist) ==
    IF visiblePortal = <<>> THEN testDict
    ELSE FillTestDict(DictSet(testDict, dist[Head(visiblePortal)], Head(visiblePortal)),
                      Tail(visiblePortal), dist)

\* lines 1450-1451: while len(testDict) > 2: del testDict[max(testDict)]
RECURSIVE DropFarthest(_)
DropFarthest(testDict) ==
    IF Len(testDict) > 2 THEN DropFarthest(DictDel(testDict, MaxKey(testDict)))
    ELSE testDict

\* lines 1437-1457
KeepClosest(visiblePortal, dist) ==
    IF Len(visiblePortal) > 2
    THEN LET testDict == DropFarthest(FillTestDict(<<>>, visiblePortal, dist))
         IN Reverse([i \in 1..Len(testDict) |-> testDict[i].val])
    ELSE visiblePortal

\* lines 1460-1520: the ray targets found visible, from entry i of rayTargets
RECURSIVE VisibleTargets(_, _, _)
VisibleTargets(targets, answers, i) ==
    IF i > Len(targets) THEN <<>>
    ELSE LET target == targets[i]
             a == answers[target]
             seen == /\ a.inFrame
                     /\ a.hit # NoHit
                     /\ IF a.hit = PortalHit
                        THEN a.hitPort # NoHit /\ InSeq(a.hitPort, targets)
                        ELSE InSeq(a.hit, targets)
         IN (IF seen THEN <<target>> ELSE <<>>)
            \o VisibleTargets(targets, answers, i + 1)

\* the whole call for one camera: its visiblePortal and visibleTarget lists as
\* they stand after line 1522, and the exception raised after it, if any
populate_cam_angle_result(targets, portalAnswers, dist, targetAnswers) ==
    LET qualified == VisiblePortals(portalAnswers, 1)
        visiblePortal == KeepClosest(qualified, dist)
        found == VisibleTargets(targets, targetAnswers, 1)
        visibleTarget == IF InSeq(Actor, found) THEN found ELSE Append(found, Actor)
    IN [raised |-> IF Len(visiblePortal) < 2 /\ visiblePortal = <<>>
                   THEN "IndexError"     \* visiblePortal[0], line 1532
                   ELSE "none",
        qualified |-> qualified,
        portals |-> visiblePortal,
        targets |-> visibleTarget]

\* lines 1526-1542 and 1573-1623: the quads written in the CAMANGLE record,
\* a portal's quad or a quad of zeros; `side` is the side of the screen the
\* only visible portal is on
ZeroQuad == 0
PortalQuads(visiblePortal, side) ==
    LET before == IF Len(visiblePortal) < 2 /\ side = "front"
                  THEN <<ZeroQuad>> ELSE <<>>
        after == IF Len(visiblePortal) < 2 /\ side # "front"
                 THEN <<ZeroQuad>> ELSE <<>>
    IN before \o visiblePortal \o after

\* the host's answers for a portal and for a ray target
\* (for a portal, hitObject is nothing, the portal itself, another portal or
\* another mesh; the distance is computed for the visible portals only)
PortalAnswers ==
    {[inFrame |-> FALSE, hit |-> "None", dist |-> 0]}
    \cup [inFrame : {TRUE}, hit : {"None", "portal", "mesh"}, dist : {0}]
    \cup [inFrame : {TRUE}, hit : {"self"}, dist : 1..MaxDist]

TargetAnswers(n) ==
    {[inFrame |-> FALSE, hit |-> NoHit, hitPort |-> NoHit]}
    \cup [inFrame : {TRUE}, hit : {NoHit} \cup (1..n), hitPort : {NoHit}]
    \cup [inFrame : {TRUE}, hit : {PortalHit}, hitPort : {NoHit} \cup (1..n)]

\* a scene of meshes, the first being the actor, and portals
InitCam ==
    /\ InitExporter /\ NoScene /\ NoStrip
    /\ \E n \in 1..MaxObjects : isRayTarget \in [1..n -> BOOLEAN]
    /\ nPortals \in 0..MaxPortals
    /\ rayTargets = <<>> /\ passes = 0 /\ camCalls = 0
    /\ NoCamCall /\ NoLevel /\ NoNla /\ NoSound /\ NoCalls

\* the object loop of write_level_c_h in one export; no statement but
\* __init__ (line 193) assigns self.rayTargets
parse_meshes ==
    /\ passes < MaxRuns
    /\ rayTargets' = parse_mesh_all(rayTargets, isRayTarget, 1)
    /\ passes' = passes + 1
    /\ camCalls' = 0
    /\ camQualified' = <<>> /\ camDist' = <<>> /\ camPortals' = <<>>
    /\ camTargets' = <<>> /\ camRaised' = "none" /\ camQuads' = <<>>
    /\ camAnswers' = <<>>
    /\ UNCHANGED <<isRayTarget, nPortals, level_symbols>>
    /\ UNCHANGED notCamVars

\* ExportPSX.populate_cam_angle for one camera of camAngles
populate_cam_angle ==
    /\ passes > 0
    /\ camCalls < MaxCamAngles
    /\ \E portalAnswers \in [1..nPortals -> PortalAnswers],
          targetAnswers \in [1..Len(isRayTarget) -> TargetAnswers(Len(isRayTarget))] :
          LET dist == [p \in 1..nPortals |-> portalAnswers[p].dist]
              r == populate_cam_angle_result(rayTargets, portalAnswers, dist,
                                             targetAnswers)
          IN /\ camQualified' = r.qualified
             /\ camDist' = [i \in 1..Len(r.qualified) |-> dist[r.qualified[i]]]
             /\ camPortals' = r.portals
             /\ camTargets' = r.targets
             /\ camRaised' = r.raised
             /\ camAnswers' = targetAnswers
             /\ \E side \in IF Len(r.portals) = 1 THEN {"front", "back"}
                             ELSE {"back"} :
                   camQuads' = IF r.raised = "none"
                               THEN PortalQuads(r.portals, side) ELSE <<>>
             /\ level_symbols' =
                   IF r.raised = "none"
                   THEN level_symbols
                        \o <<Sym("unsigned long", "_binary_TIM_bg_tim_start[]", camCalls),
                             Sym("unsigned long", "_binary_TIM_bg_tim_end[]", camCalls),
                             Sym("unsigned long", "_binary_TIM_bg_tim_length", camCalls),
                             Sym("TIM_IMAGE", "tim_bg_", camCalls),
                             Sym("CAMANGLE", "fileName_camAngle_", camCalls)>>
                   ELSE level_symbols
    /\ camCalls' = camCalls + 1
    /\ UNCHANGED <<isRayTarget, nPortals, rayTargets, passes>>
    /\ UNCHANGED notCamVars

NextCam == parse_meshes \/ populate_cam_angle

SpecCam == InitCam /\ [][NextCam]_vars

(***************************************************************************)
(* Properties of the visibility resolver.                                  *)
(***************************************************************************)
\* C9: whatever the ray casts and frame tests return, the actor is in the
\* final visible-target list of the viewpoint, exactly once.
C9_ActorOnce ==
    camCalls > 0 => Count(camTargets, Actor) = 1

\* the distance of qualified portal q (camDist is aligned with camQualified)
DistOf(q) == camDist[CHOOSE i \in 1..Len(camQualified) : camQualified[i] = q]

SceneBoxes == {b \in Boxes : b.x1 = 0 /\ b.y1 = 0 /\ b.y2 = MaxCoord * Unit}
SceneMeshes ==
    {m \in [isActor : BOOLEAN, isLevel : BOOLEAN, isRigidBody : BOOLEAN,
            box : SceneBoxes] :
        m.isLevel => (~m.isActor /\ ~m.isRigidBody)}

\* a record of the level file: a definition and the names it refers to in
\* field order, or a placeholder token
Item(kind, sym, refs) == [kind |-> kind, sym |-> sym, refs |-> refs]
Def(type, name, k, refs) == Item("def", Sym(type, name, k), refs)
Ref(name, k) == <<name, k>>
Zero == Ref("0", 0)
NODE_DECLARATION == Item("token", Sym("", "NODE_DECLARATION", 0), <<>>)
subs_(k) == Ref("subs_", k)

Write(w, items, syms) ==
    [w EXCEPT !.body = @ \o items, !.symbols = @ \o syms]
Fail(w, e) == [w EXCEPT !.raised = e]

\* lines 2043-2049: the LEVEL symbol, the placeholder of the forward
\* declarations, populate_horizon_color and populate_ambient_color
level_head(w) ==
    Write(w,
          <<NODE_DECLARATION,
            Def("CVECTOR", "fileName_BGc", 0, <<>>),
            Def("VECTOR", "fileName_BKc", 0, <<>>)>>,
          <<Sym("LEVEL", "fileName", 0), Sym("CVECTOR", "fileName_BGc", 0),
            Sym("VECTOR", "fileName_BKc", 0)>>)

\* lines 2054-2056 with parse_speaker: soundFiles is None when the first
\* speaker is appended to it (lines 200, 543, 563)
parse_speakers(w, speakers) ==
    IF w.raised # "none" \/ ~speakers THEN w ELSE Fail(w, "AttributeError")

\* populate_cam_path_points without path points, lines 737-750
populate_cam_path_points(w) ==
    IF w.raised # "none" THEN w
    ELSE Write(w, <<Def("CAMPATH", "fileName_camPath", 0, <<>>)>>,
                  <<Sym("CAMPATH", "fileName_camPath", 0)>>)

\* populate_lights, lines 752-856
populate_lights(w, lamps) ==
    IF w.raised # "none" \/ ~lamps THEN w
    ELSE Write(w, <<Def("MATRIX", "fileName_lgtmat", 0, <<>>),
                    Def("MATRIX", "fileName_cmat", 0, <<>>)>>,
                  <<Sym("MATRIX", "fileName_lgtmat", 0),
                    Sym("MATRIX", "fileName_cmat", 0)>>)

\* populate_mesh for an untextured mesh: the definitions written at lines
\* 865-1392, the MESH record with the placeholder of its node last
MeshDefinitions(k) ==
    <<Def("SVECTOR", "fileName_model_mesh[]", k, <<>>),
      Def("SVECTOR", "fileName_model_normal[]", k, <<>>),
      Def("CVECTOR", "fileName_model_color[]", k, <<>>),
      Def("BODY", "fileName_model_body", k, <<>>),
      Def("TMESH", "fileName_model", k,
          <<Ref("fileName_model_mesh", k), Ref("fileName_model_normal", k),
            Ref("fileName_model_color", k)>>),
      Def("MESH", "fileName_mesh", k,
          <<Ref("fileName_model", k), Ref("fileName_model_body", k), subs_(k)>>)>>

\* the mesh loop of lines 2078-2079, from mesh k on
RECURSIVE populate_meshes(_, _, _)
populate_meshes(w, sc, k) ==
    IF w.raised # "none" \/ k > Len(sc) THEN w
    ELSE populate_meshes(
            Write(w, MeshDefinitions(k),
                  MeshSymbols(k, FALSE) \o <<Sym("MESH", "fileName_mesh", k)>>),
            sc, k + 1)

\* populate_portals without portals, lines 1395-1414: the count is
\* written, the list has no opening line
populate_portals_level(w) ==
    IF w.raised # "none" THEN w
    ELSE Write(w, <<Def("int", "fileName_meshes_length", 0, <<>>)>>,
                  <<Sym("MESH *", "fileName_meshes[]", 0),
                    Sym("int", "fileName_meshes_length", 0)>>)

\* populate_cam_angles without cameras, lines 1644-1670
populate_cam_angles(w) ==
    IF w.raised # "none" THEN w
    ELSE Write(w, <<Def("CAMANGLE *", "fileName_camAngles[]", 0, <<>>)>>,
                  <<Sym("CAMANGLE *", "fileName_camAngles[]", 0)>>)

\* the positions in sc of the meshes that are (or are not) level planes
RECURSIVE Indices(_, _, _)
Indices(sc, level, k) ==
    IF k > Len(sc) THEN <<>>
    ELSE (IF sc[k].isLevel = level THEN <<k>> ELSE <<>>)
         \o Indices(sc, level, k + 1)

\* lines 1781-1806 for one plane: the objects standing on it, the actor
\* left out.  (An object across several planes is listed at its second
\* plane; a second plane raises at line 1833 before anything is written.)
RECURSIVE ObjectsOn(_, _, _, _)
ObjectsOn(sc, plane, actorPtr, objs) ==
    IF objs = <<>> THEN <<>>
    ELSE LET o == Head(objs)
         IN (IF isInPlane(sc[plane].box, sc[o].box) = 1 /\ o # actorPtr
             THEN <<o>> ELSE <<>>)
            \o ObjectsOn(sc, plane, actorPtr, Tail(objs))

RECURSIVE Refs(_, _, _)
Refs(name, map, seq) ==
    IF seq = <<>> THEN <<>>
    ELSE <<Ref(name, map[Head(seq)])>> \o Refs(name, map, Tail(seq))

\* lines 1853-1978 for the plane at position i of planes: its four records
\* and their symbols
NodeRecords(sc, planes, objs, actorPtr, siblings, i) ==
    LET p == planes[i]
        onPlane == ObjectsOn(sc, p, actorPtr, objs)
        sibs == siblings.S \o siblings.N \o siblings.E \o siblings.W
    IN [items |->
           <<Def("SIBLINGS", "fileName_node_siblings", p,
                 Refs("fileName_node", planes, sibs)),
             Def("CHILDREN", "fileName_node_objects", p,
                 Refs("fileName_mesh", [k \in 1..Len(sc) |-> k], onPlane)),
             Def("CHILDREN", "fileName_node_rigidbodies", p, <<>>),
             Def("NODE", "fileName_node", p,
                 <<Ref("fileName_mesh", p), Ref("fileName_node_siblings", p),
                   Ref("fileName_node_objects", p),
                   Ref("fileName_node_rigidbodies", p)>>)>>,
        syms |->
           <<Sym("SIBLINGS", "fileName_node_siblings", p),
             Sym("CHILDREN", "fileName_node_objects", p),
             Sym("CHILDREN", "fileName_node_rigidbodies", p),
             Sym("NODE", "fileName_node", p)>>]

RECURSIVE WriteNodes(_, _, _, _, _, _, _)
WriteNodes(w, sc, planes, objs, actorPtr, done, i) ==
    IF i > Len(done) THEN w
    ELSE LET r == NodeRecords(sc, planes, objs, actorPtr, done[i], i)
         IN WriteNodes(Write(w, r.items, r.syms), sc, planes, objs, actorPtr,
                       done, i + 1)

\* populate_spatial_partitioning(actorPtr, propPtr, f) on the scene.  A
\* rigid body that is no plane raises at line 1765 (`o` is assigned by the
\* loop of line 1783 only); the planes done before a raise have their
\* records written; the pointers follow at lines 1979-2030.
populate_spatial_partitioning_level(w, sc, actorPtr, propPtr) ==
    IF w.raised # "none" THEN w
    ELSE LET planes == Indices(sc, TRUE, 1)
             objs == Indices(sc, FALSE, 1)
             LP == [i \in 1..Len(planes) |-> sc[planes[i]].box]
             actor == IF sc[actorPtr].isLevel THEN NoBox ELSE sc[actorPtr].box
             r == PlaneLoop(LP, actor, 1,
                            [raised |-> "none", nodes |-> <<>>, nodePtr |-> 0])
             w1 == WriteNodes(w, sc, planes, objs, actorPtr, r.nodes, 1)
             w2 == Write(w1, <<Def("MESH *", "fileName_actorPtr", 0,
                                   <<Ref("fileName_mesh", actorPtr)>>)>>, <<>>)
         IN IF \E k \in 1..Len(sc) : ~sc[k].isLevel /\ sc[k].isRigidBody
            THEN Fail(w, "UnboundLocalError")
            ELSE IF r.raised # "none" THEN Fail(w1, r.raised)
            ELSE IF r.nodePtr = 0 THEN Fail(w2, "UnboundLocalError")
            ELSE Write(w2,
                   <<Def("MESH *", "fileName_levelPtr", 0,
                         <<Ref("fileName_mesh", planes[r.nodePtr])>>),
                     Def("MESH *", "fileName_propPtr", 0,
                         <<Ref("fileName_mesh", propPtr)>>),
                     Def("CAMANGLE *", "fileName_camPtr", 0,
                         <<Ref("fileName_camAngle_", 0)>>),
                     Def("NODE *", "fileName_curNode", 0,
                         <<Ref("fileName_node", planes[r.nodePtr])>>)>>,
                   <<Sym("MESH *", "fileName_actorPtr", 0),
                     Sym("MESH *", "fileName_levelPtr", 0),
                     Sym("MESH *", "fileName_propPtr", 0),
                     Sym("CAMANGLE *", "fileName_camPtr", 0),
                     Sym("NODE *", "fileName_curNode", 0)>>)

\* lines 2102-2108: with sounds, writeVAGbank writes the bank of the
\* samples, and writeXAbank is handed itself for the list of sounds and
\* takes the length of a method
write_sound_banks(w, sounds) ==
    IF w.raised # "none" \/ ~sounds THEN w
    ELSE Fail(Write(w, <<Def("VAGbank", "fileName_VAGBank", 0, <<>>)>>,
                       <<Sym("VAGbank", "fileName_VAGBank", 0)>>),
              "TypeError")

\* the sound fields of a LEVEL record whose banks were written
SoundFieldsOfBanks(sounds) ==
    <<Ref("fileName_sounds", 0), Ref("fileName_VAGBank", 0),
      Ref("fileName_XAFiles", 0)>>

\* lines 2095-2122: the three sound fields of the LEVEL record, in the
\* record's order (level_sounds, VAGBank, XAFiles); sounds is the truth
\* value of self.soundFiles at line 2102 (None and the empty list are
\* false; the banks of a list are written by writeVAGbank, writeXAbank
\* and writeSoundObj)
SoundFields(sounds) ==
    IF ~sounds THEN <<Zero, Zero, Zero>>
    ELSE SoundFieldsOfBanks(sounds)

\* lines 2124-2187: the LEVEL record; actorPtr, levelPtr, propPtr and
\* startNode are the locals actorPtr .. nodePtr of lines 2084-2088
LevelRecord(actorPtr, levelPtr, propPtr, startNode, sounds) ==
    Def("LEVEL", "fileName", 0,
        <<Ref("fileName_BGc", 0), Ref("fileName_BKc", 0),
          Ref("fileName_cmat", 0), Ref("fileName_lgtmat", 0),
          Ref("fileName_meshes", 0), Ref("fileName_meshes_length", 0),
          Ref("fileName_mesh", actorPtr), Ref("fileName_mesh", levelPtr),
          Ref("fileName_mesh", propPtr), Ref("fileName_camAngle_", 0),
          Ref("fileName_camPath", 0), Ref("fileName_camAngles", 0),
          Ref("fileName_node", startNode)>> \o SoundFields(sounds))

write_level_record(w, first_mesh, sounds) ==
    IF w.raised # "none" THEN w
    ELSE Write(w, <<LevelRecord(first_mesh, first_mesh, first_mesh, first_mesh,
                                sounds)>>, <<>>)

\* lines 2213-2220 on one record: a placeholder of a moveable becomes a
\* pointer to its plane's node, any other placeholder becomes 0
SubstituteRef(ref, planeOf) ==
    IF ref[1] # "subs_" THEN ref
    ELSE IF planeOf[ref[2]] # 0 THEN Ref("fileName_node", planeOf[ref[2]])
    ELSE Zero

\* lines 2197-2224, reading the attributes LvlPlanes and PropPlane: the
\* forward declarations are built and appended to the table (2203-2209),
\* the text that holds them is overwritten by line 2212, and the
\* placeholders are replaced
substitute_On(attrLvlPlanes, attrPropPlane, w) ==
    IF w.raised # "none" THEN w
    ELSE IF ~attrLvlPlanes.bound THEN Fail(w, "AttributeError")
    ELSE LET planes == attrLvlPlanes.val
             decl == [i \in 1..Len(planes) |-> Sym("NODE", "fileName_node", planes[i])]
             w1 == [w EXCEPT !.symbols = @ \o decl]
             kept == SelectSeq(w.body, LAMBDA it : it # NODE_DECLARATION)
         IN IF ~attrPropPlane.bound THEN Fail(w1, "AttributeError")
            ELSE [w1 EXCEPT !.body =
                     [i \in 1..Len(kept) |->
                        [kept[i] EXCEPT !.refs =
                            [j \in 1..Len(@) |->
                               SubstituteRef(@[j], attrPropPlane.val)]]]]

\* no statement assigns self.LvlPlanes or self.PropPlane: they are locals
\* of populate_spatial_partitioning (lines 1708, 1717)
substitute(w) == substitute_On(Unbound, Unbound, w)

\* a scene of untextured meshes, lamps and speakers
InitLevel ==
    /\ InitExporter /\ NoScene /\ NoStrip /\ NoCam
    /\ \E n \in 1..MaxSceneMeshes : scene \in [1..n -> SceneMeshes]
    /\ hasLamps \in BOOLEAN
    /\ hasSpeakers \in BOOLEAN
    /\ body = <<>> /\ header = <<>> /\ levelRaised = "none" /\ pcLevel = "scene"
    /\ NoNla /\ NoSound /\ NoCalls

\* one whole call of write_level_c_h, stage after stage; level.h is written
\* from the table by the last statements of the call (lines 2226-2235).
\* first_mesh is bpy.data.meshes[0] (line 2084); sounds is the truth value
\* of self.soundFiles at line 2102, which is None: a call that parsed a
\* speaker has raised before.
call_write_level_c_h ==
    /\ pcLevel = "scene"
    /\ LET first_mesh == 1
           sounds == soundFiles # None
       IN \E w1 \in {level_head([symbols |-> level_symbols, body |-> <<>>,
                                  raised |-> "none"])} :
          \E w2 \in {parse_speakers(w1, hasSpeakers)} :
          \E w3 \in {populate_cam_path_points(w2)} :
          \E w4 \in {populate_lights(w3, hasLamps)} :
          \E w5 \in {populate_meshes(w4, scene, 1)} :
          \E w6 \in {populate_portals_level(w5)} :
          \E w7 \in {populate_cam_angles(w6)} :
          \E w8 \in {populate_spatial_partitioning_level(w7, scene, first_mesh,
                                                         first_mesh)} :
          \E w9 \in {write_sound_banks(w8, sounds)} :
          \E w10 \in {write_level_record(w9, first_mesh, sounds)} :
          \E r \in {substitute(w10)} :
             /\ level_symbols' = r.symbols
             /\ body' = r.body
             /\ header' = IF r.raised = "none" THEN r.symbols ELSE header
             /\ levelRaised' = r.raised
    /\ pcLevel' = "done"
    /\ UNCHANGED <<scene, hasLamps, hasSpeakers>>
    /\ UNCHANGED notLevelVars

NextLevel == call_write_level_c_h

SpecLevel == InitLevel /\ [][NextLevel]_vars

(***************************************************************************)
(* The animation stages on one object: bakeActionToNLA, as parse_mesh      *)
(* calls it, and parse_anim on the object's tracks.  A track is the        *)
(* sequence of its strips (strips of one track do not overlap: a track     *)
(* here holds one strip or none); a strip is the frames it spans and is    *)
(* known by its position among the strips of all tracks.                   *)
(***************************************************************************)
StripSet == {st \in [frame_start : 0..MaxFrame, frame_end : 0..MaxFrame] :
                st.frame_start < st.frame_end}
Tracks == {<<>>} \cup {<<st>> : st \in StripSet}

\* rmEmptyNLA, lines 2829-2835: the tracks without strips are removed from
\* the collection while the loop iterates over it.  Whether the track that
\* follows a removed one is still visited is the host's iterator's affair:
\* skipsNext is its behaviour.
RECURSIVE rmEmptyNLA(_, _)
rmEmptyNLA(tracks, skipsNext) ==
    IF tracks = <<>> THEN <<>>
    ELSE IF Head(tracks) # <<>>
    THEN <<Head(tracks)>> \o rmEmptyNLA(Tail(tracks), skipsNext)
    ELSE IF skipsNext /\ Len(tracks) >= 2
    THEN <<tracks[2]>> \o rmEmptyNLA(Tail(Tail(tracks)), skipsNext)
    ELSE rmEmptyNLA(Tail(tracks), skipsNext)

\* bakeActionToNLA, lines 2838-2865, on an object with animation data
bakeActionToNLA_result(act, tracks, skipsNext) ==
    LET baked == IF act # NoAction
                 THEN Append(tracks,
                             <<[frame_start |-> act.frame_start,
                                frame_end |-> act.frame_end]>>)
                 ELSE tracks
    IN [action |-> NoAction, nla_tracks |-> rmEmptyNLA(baked, skipsNext)]

\* findOverlappingTrack, lines 2924-2928: the strips of all tracks
RECURSIVE tmpStripsOf(_)
tmpStripsOf(tracks) ==
    IF tracks = <<>> THEN <<>> ELSE Head(tracks) \o tmpStripsOf(Tail(tracks))

HasKey(d, k) == \E i \in 1..Len(d) : d[i].key = k
Get(d, k) == d[CHOOSE i \in 1..Len(d) : d[i].key = k].val

\* findOverlappingTrack, lines 2935-2945, for tmpStrip and otherStrip
AddOverlap(tmpStrips, dict, tmpStrip, otherStrip) ==
    IF otherStrip = tmpStrip THEN dict
    ELSE IF tmpStrips[otherStrip].frame_start < tmpStrips[tmpStrip].frame_end
            /\ tmpStrips[otherStrip].frame_end > tmpStrips[tmpStrip].frame_start
    THEN IF HasKey(dict, otherStrip)
         THEN IF ~HasKey(dict, tmpStrip)
              THEN DictSet(dict, otherStrip, Append(Get(dict, otherStrip), tmpStrip))
              ELSE dict
         ELSE IF ~HasKey(dict, tmpStrip)
              THEN DictSet(dict, otherStrip, <<tmpStrip>>)
              ELSE dict
    ELSE dict

\* findOverlappingTrack, lines 2929-2946, from (tmpStrip, otherStrip) on
RECURSIVE findOverlappingTrack(_, _, _, _)
findOverlappingTrack(tmpStrips, dict, tmpStrip, otherStrip) ==
    IF tmpStrip > Len(tmpStrips) THEN dict
    ELSE IF otherStrip > Len(tmpStrips)
    THEN findOverlappingTrack(tmpStrips, dict, tmpStrip + 1, 1)
    ELSE findOverlappingTrack(tmpStrips,
                              AddOverlap(tmpStrips, dict, tmpStrip, otherStrip),
                              tmpStrip, otherStrip + 1)

Least(S) == CHOOSE x \in S : \A y \in S : x <= y
Greatest(S) == CHOOSE x \in S : \A y \in S : x >= y

\* parse_anim, lines 610-625: the clip written for the strip that keys a
\* group of overlappingStrips
MergedClip(tmpStrips, item) ==
    LET strp == tmpStrips[item.key]
        others == {item.val[i] : i \in 1..Len(item.val)}
    IN [strip |-> item.key, group |-> item.val,
        strip_start |-> Least({strp.frame_start}
                              \cup {tmpStrips[a].frame_start : a \in others}),
        strip_end |-> Greatest({strp.frame_start}
                               \cup {tmpStrips[a].frame_end : a \in others})]

\* parse_anim, lines 602-647: the clips handed to writeVANIM
parse_anim_clips(tracks, mix) ==
    LET tmpStrips == tmpStripsOf(tracks)
        overlappingStrips == findOverlappingTrack(tmpStrips, <<>>, 1, 1)
    IN IF mix
       THEN [i \in 1..Len(overlappingStrips) |->
                MergedClip(tmpStrips, overlappingStrips[i])]
       ELSE [i \in 1..Len(tmpStrips) |->
                [strip |-> i, group |-> <<>>,
                 strip_start |-> tmpStrips[i].frame_start,
                 strip_end |-> tmpStrips[i].frame_end]]

\* an object with animation data: its tracks, with or without an action
InitNla ==
    /\ InitExporter /\ NoScene /\ NoStrip /\ NoCam /\ NoLevel
    /\ animation_data = TRUE
    /\ action \in StripSet \cup {NoAction}
    /\ \E n \in 0..MaxTracks : nla_tracks \in [1..n -> Tracks]
    /\ exp_mixOverlapingStrips \in BOOLEAN
    /\ clips = <<>> /\ bakes = 0 /\ pcNla = "object"
    /\ NoSound /\ NoCalls

\* ExportPSX.bakeActionToNLA(obj), as parse_mesh calls it (line 592)
bakeActionToNLA ==
    /\ pcNla = "object"
    /\ animation_data
    /\ bakes < MaxBakes
    /\ \E skipsNext \in BOOLEAN :
          LET r == bakeActionToNLA_result(action, nla_tracks, skipsNext)
          IN /\ action' = r.action
             /\ nla_tracks' = r.nla_tracks
    /\ bakes' = bakes + 1
    /\ UNCHANGED <<animation_data, exp_mixOverlapingStrips, clips, pcNla,
                   level_symbols>>
    /\ UNCHANGED notNlaVars

\* ExportPSX.parse_anim(obj, f) for the object, its tracks listed in
\* objAnims: the symbols of writeMESH_ANIMS and of each writeVANIM
parse_anim ==
    /\ pcNla = "object"
    /\ bakes > 0
    /\ tmpStripsOf(nla_tracks) # <<>>
    /\ clips' = parse_anim_clips(nla_tracks, exp_mixOverlapingStrips)
    /\ level_symbols' = level_symbols
          \o <<Sym("MESH_ANIMS_TRACKS", "fileName_model_anims", 0)>>
          \o [i \in 1..Len(clips') |->
                 Sym("VANIM", "fileName_model_anim_", clips'[i].strip)]
    /\ pcNla' = "done"
    /\ UNCHANGED <<animation_data, action, nla_tracks, exp_mixOverlapingStrips,
                   bakes>>
    /\ UNCHANGED notNlaVars

NextNla == bakeActionToNLA \/ parse_anim

SpecNla == InitNla /\ [][NextNla]_vars

(***************************************************************************)
(* The sound stages: ExportPSX.parse_speaker, as the object loop of        *)
(* write_level_c_h calls it for each speaker, and ExportPSX.writeVAGbank   *)
(* and ExportPSX.writeSoundObj on a list of sounds.  A sound is its        *)
(* converted path, its XAfile (-1 for a sample) and its XAsize (the size   *)
(* of the converted file of a stream, -1 otherwise).                       *)
(***************************************************************************)
XAChannels == 8

\* parse_speaker, lines 521-576, on the attributes s: the channel counters
\* advance for a stream (lines 523-536), and the Sound is appended to
\* soundFiles, which is None (line 200) unless a list was assigned to it
parse_speaker_result(s, isXA, path, exists) ==
    LET wrapped == isXA /\ s.freeXAchannel > XAChannels - 1
        XAfile == IF wrapped THEN s.freeXAfile + 1 ELSE s.freeXAfile
        XAchannel == IF wrapped THEN 0 ELSE s.freeXAchannel
        sound == [convertedSoundPath |-> path,
                  XAsize |-> IF isXA /\ exists THEN 1 ELSE None,
                  XAfile |-> IF isXA THEN XAfile ELSE None,
                  XAcahnnel |-> IF isXA THEN XAchannel ELSE None]
        s1 == IF isXA
              THEN [s EXCEPT !.freeXAfile = XAfile, !.freeXAchannel = XAchannel + 1]
              ELSE s
    IN [s1 EXCEPT
          !.XAfile = XAfile, !.XAchannel = XAchannel,
          !.raised = IF s.soundFiles = None THEN "AttributeError" ELSE "none",
          !.soundFiles = IF s.soundFiles = None THEN None ELSE Append(@, sound)]

\* the Sound of a sample (XAfile and XAsize left at -1), of a stream whose
\* converted file exists, or of a stream whose converted file is missing
\* (XAsize -1, lines 537-542)
Sounds ==
    {s \in [convertedSoundPath : 1..MaxPaths, XAfile : {None, 0},
            XAsize : {None, 1}] :
        s.XAfile = None => s.XAsize = None}

\* writeVAGbank, lines 3373-3378: the first loop reaches writeExtList at the
\* first sample; writeExtList(f, soundName) is called on self with three
\* arguments (lines 3347, 3376)
ExtListRaises(sounds) == \E i \in 1..Len(sounds) : sounds[i].XAsize = None

\* writeVAGbank, lines 3373-3378: index counts the samples of the list
RECURSIVE CountSamples(_)
CountSamples(sounds) ==
    IF sounds = <<>> THEN 0
    ELSE (IF Head(sounds).XAsize = None THEN 1 ELSE 0) + CountSamples(Tail(sounds))

\* writeVAGbank, lines 3388-3400: one entry for each sample of the list,
\* which is given the next SPU channel as its index
RECURSIVE BankEntries(_, _, _)
BankEntries(sounds, i, SPU) ==
    IF i > Len(sounds) THEN <<>>
    ELSE IF sounds[i].XAsize = None
    THEN <<[sound |-> i, index |-> SPU]>> \o BankEntries(sounds, i + 1, SPU + 1)
    ELSE BankEntries(sounds, i + 1, SPU)

\* writeVAGbank(f, soundList, level_symbols), lines 3357-3404
writeVAGbank_result(sounds) ==
    IF ExtListRaises(sounds)
    THEN [raised |-> "TypeError", bank |-> NoBank]
    ELSE [raised |-> "none",
          bank |-> [written |-> TRUE, index |-> CountSamples(sounds),
                    entries |-> BankEntries(sounds, 1, 0)]]

\* a fresh exporter, and a list of sounds for writeVAGbank
InitSoundStages ==
    /\ InitExporter /\ NoScene /\ NoStrip /\ NoCam /\ NoLevel /\ NoNla /\ NoCalls
    /\ InitSound /\ pcSound = "idle"
    /\ \E n \in 0..MaxSounds : soundList \in [1..n -> Sounds]
    /\ VAGBank = NoBank /\ sampleIndex = [i \in 1..Len(soundList) |-> None]
    /\ vagRaised = "none" /\ pcVag = "list" /\ soundObjects = NoObjects

\* write_level_c_h enters its object loop (line 2054): an export begins
begin_object_loop ==
    /\ pcSound \in {"idle", "raised"}
    /\ speakerCalls < MaxSpeakerCalls
    /\ xaIngested' = 0
    /\ lastXA' = NoXA
    /\ soundRaised' = "none"
    /\ pcSound' = "loop"
    /\ UNCHANGED <<soundFiles, freeXAfile, freeXAchannel, speakerCalls,
                   soundList, soundObjects, VAGBank, sampleIndex, vagRaised, pcVag,
                   level_symbols>>
    /\ UNCHANGED notSoundVars

\* the object loop ends without another speaker
end_object_loop ==
    /\ pcSound = "loop"
    /\ pcSound' = "idle"
    /\ UNCHANGED <<soundFiles, freeXAfile, freeXAchannel, xaIngested, lastXA,
                   speakerCalls, soundRaised, soundList, soundObjects, VAGBank, sampleIndex,
                   vagRaised, pcVag, level_symbols>>
    /\ UNCHANGED notSoundVars

\* ExportPSX.parse_speaker(obj) for the next speaker of the object loop
parse_speaker ==
    /\ pcSound = "loop"
    /\ speakerCalls < MaxSpeakerCalls
    /\ \E isXA \in BOOLEAN, path \in 1..MaxPaths, exists \in BOOLEAN :
          LET r == parse_speaker_result(
                      [soundFiles |-> soundFiles, freeXAfile |-> freeXAfile,
                       freeXAchannel |-> freeXAchannel, XAfile |-> 0,
                       XAchannel |-> 0, raised |-> "none"], isXA, path, exists)
          IN /\ soundFiles' = r.soundFiles
             /\ freeXAfile' = r.freeXAfile
             /\ freeXAchannel' = r.freeXAchannel
             /\ soundRaised' = r.raised
             /\ pcSound' = IF r.raised = "none" THEN "loop" ELSE "raised"
             /\ xaIngested' = IF isXA THEN xaIngested + 1 ELSE xaIngested
             /\ lastXA' = IF isXA
                          THEN [made |-> TRUE, k |-> xaIngested,
                                XAfile |-> r.XAfile, XAchannel |-> r.XAchannel,
                                stored |-> r.raised = "none"]
                          ELSE lastXA
    /\ speakerCalls' = speakerCalls + 1
    /\ UNCHANGED <<soundList, soundObjects, VAGBank, sampleIndex, vagRaised, pcVag,
                   level_symbols>>
    /\ UNCHANGED notSoundVars

\* ExportPSX.writeVAGbank(f, soundList, level_symbols)
writeVAGbank ==
    /\ pcVag = "list"
    /\ LET r == writeVAGbank_result(soundList)
       IN /\ VAGBank' = r.bank
          /\ vagRaised' = r.raised
          /\ sampleIndex' =
                [i \in 1..Len(soundList) |->
                   IF \E e \in 1..Len(r.bank.entries) : r.bank.entries[e].sound = i
                   THEN r.bank.entries[CHOOSE e \in 1..Len(r.bank.entries) :
                                          r.bank.entries[e].sound = i].index
                   ELSE sampleIndex[i]]
          /\ level_symbols' =
                IF r.raised = "none"
                THEN Append(level_symbols, Sym("VAGbank", "fileName_VAGBank", 0))
                ELSE level_symbols
    /\ pcVag' = "done"
    /\ UNCHANGED <<soundFiles, freeXAfile, freeXAchannel, xaIngested, lastXA,
                   speakerCalls, soundRaised, pcSound, soundList, soundObjects>>
    /\ UNCHANGED notSoundVars

\* writeSoundObj(f, soundFiles, level_symbols), lines 3496-3561, on a list
\* of sounds: the bank sample each SOUND_OBJECT refers to
writeSoundObj_result(sounds, index) ==
    [i \in 1..Len(sounds) |->
        IF sounds[i].XAsize = None
        THEN [bank |-> "VAGBank", XAfile |-> None, index |-> index[i]]
        ELSE [bank |-> "XABank", XAfile |-> sounds[i].XAfile, index |-> index[i]]]

\* ExportPSX.writeSoundObj(f, soundFiles, level_symbols)
writeSoundObj ==
    /\ pcVag \in {"list", "done"}
    /\ ~soundObjects.written
    /\ soundObjects' = [written |-> TRUE,
                        objects |-> writeSoundObj_result(soundList, sampleIndex)]
    /\ level_symbols' = level_symbols
          \o [i \in 1..Len(soundList) |-> Sym("SOUND_OBJECT", "fileName_", i)]
          \o <<Sym("LEVEL_SOUNDS", "fileName_sounds", 0)>>
    /\ UNCHANGED <<soundFiles, freeXAfile, freeXAchannel, xaIngested, lastXA,
                   speakerCalls, soundRaised, pcSound, soundList, VAGBank,
                   sampleIndex, vagRaised, pcVag>>
    /\ UNCHANGED notSoundVars

NextSound ==
    \/ begin_object_loop
    \/ end_object_loop
    \/ parse_speaker
    \/ writeVAGbank
    \/ writeSoundObj

SpecSound == InitSoundStages /\ [][NextSound]_vars

(***************************************************************************)
(* The geometry encoder: the vertex and normal arrays of                   *)
(* ExportPSX.populate_mesh (lines 858-906) for one mesh.  A vertex is its  *)
(* position and its normal, in halves of a unit.  The file is the sequence *)
(* of the array rows written to it, a row being the array it belongs to    *)
(* and its three numbers; a call of f.write is the sequence of its         *)
(* arguments, an argument the rows its text holds.                         *)
(***************************************************************************)
MeshVertices ==
    [co : Positions, normal : {n \in Positions : n.x = n.y /\ n.y = n.z}]

\* math.ceil of h halves
PyCeil(h) == 0 - ((0 - h) \div 2)

\* f.write(*args): TextIO.write takes exactly one argument
f_write(f, args) ==
    IF f.raised # "none" THEN f
    ELSE IF Len(args) # 1 THEN Fail(f, "TypeError")
    ELSE [f EXCEPT !.rows = @ \o args[1]]

\* `f.write / (text)`, line 885: a method divided by a string
f_write_divided(f) == IF f.raised # "none" THEN f ELSE Fail(f, "TypeError")

Row(array, x, y, z) == [array |-> array, row |-> <<x, y, z>>]

\* lines 873-881: the row of a vertex in the mesh array
VertexRow(v, scale) ==
    Row("mesh", PyCeil(v.co.x * scale), PyCeil((0 - v.co.z) * scale),
        PyCeil(v.co.y * scale))

\* lines 894-902: the row of a vertex in the normal array
NormalRow(v) ==
    Row("normal", PyRound((0 - v.normal.x) * 4096), PyRound(v.normal.z * 4096),
        PyRound((0 - v.normal.y) * 4096))

\* the loops of lines 867-884 and 892-905: a row, a comma and a line end
\* for every index of range(len(mesh.vertices))
RowLoop(f, rows) == IF f.raised # "none" THEN f ELSE [f EXCEPT !.rows = @ \o rows]

\* a mesh of the scene
InitGeom ==
    /\ InitExporter /\ NoScene /\ NoCam /\ NoLevel /\ NoNla /\ NoSound
    /\ strip = <<>> /\ clipC = <<>> /\ clipA = <<>>
    /\ exp_Scale \in 1..MaxScale
    /\ \E n \in 0..MaxVerts : vertices \in [1..n -> MeshVertices]
    /\ meshFile = <<>> /\ geomRaised = "none" /\ pcGeom = "mesh"
    /\ NoInPlane /\ NoBodies /\ NoSubst

\* ExportPSX.populate_mesh, lines 863-906, called on the mesh
call_populate_mesh ==
    /\ pcGeom = "mesh"
    /\ \E f1 \in {f_write([rows |-> <<>>, raised |-> "none"], <<>>)} :     \* 864
       \E f2 \in {f_write(f1, << <<>> >>)} :                               \* 865
       \E f3 \in {RowLoop(f2, [i \in 1..Len(vertices) |->
                                  VertexRow(vertices[i], exp_Scale)])} :
       \E f4 \in {f_write_divided(f3)} :                                   \* 885
       \E f5 \in {f_write(f4, << <<>> >>)} :                               \* 888
       \E f6 \in {RowLoop(f5, [i \in 1..Len(vertices) |->
                                  NormalRow(vertices[i])])} :
       \E f7 \in {f_write(f6, << <<>> >>)} :                               \* 906
          /\ meshFile' = f7.rows
          /\ geomRaised' = f7.raised
    /\ pcGeom' = "done"
    /\ UNCHANGED <<vertices, exp_Scale>>
    /\ UNCHANGED notGeomVars

NextGeom == call_populate_mesh

SpecGeom == InitGeom /\ [][NextGeom]_vars

(***************************************************************************)
(* The substitution of the owning-node placeholders, lines 2213-2222 of    *)
(* write_level_c_h, on the text of a level file and the dict PropPlane as  *)
(* the loop reads it.  A text is a sequence of tokens, a cleaned name one  *)
(* or two of them ("Cube", "Cube" "_001"); the file is the sequence of the *)
(* placeholder lines of its MESH records, one per mesh (line 1387).        *)
(* PropPlane is the sequence of its items in insertion order: a moveable   *)
(* and the cleaned name of its plane.                                      *)
(***************************************************************************)
CleanNames == {<<"Cube">>, <<"Cube", "_001">>, <<"Crate">>}
PlaneNames == {<<"Plane">>, <<"Plane", "_001">>}

\* line 1387: "\t" + "subs_" + cleanName(mesh.name) + ",\n"
PlaceholderLine(name) == <<"\t", "subs_">> \o name \o <<",">>

\* str.replace(old, new): every occurrence of old, from left to right
RECURSIVE str_replace(_, _, _)
str_replace(text, old, new) ==
    IF Len(text) < Len(old) THEN text
    ELSE IF SubSeq(text, 1, Len(old)) = old
    THEN new \o str_replace(SubSeq(text, Len(old) + 1, Len(text)), old, new)
    ELSE <<Head(text)>> \o str_replace(Tail(text), old, new)

\* lines 2214-2218: the loop over self.PropPlane, from item i on
RECURSIVE ReplaceMoveables(_, _, _, _)
ReplaceMoveables(data, names, items, i) ==
    IF i > Len(items) THEN data
    ELSE ReplaceMoveables(
            [l \in 1..Len(data) |->
                str_replace(data[l], <<"subs_">> \o names[items[i].moveable],
                            <<"&fileName_node">> \o items[i].plane)],
            names, items, i + 1)

\* line 2220: sub("(?m)^\tsubs_.*$", "\t0,", newdata)
re_sub(data) ==
    [l \in 1..Len(data) |->
        IF Len(data[l]) >= 2 /\ SubSeq(data[l], 1, 2) = <<"\t", "subs_">>
        THEN <<"\t", "0", ",">>
        ELSE data[l]]

\* the meshes of a scene under distinct names, and the planes of some
InitSubst ==
    /\ InitExporter /\ NoScene /\ NoStrip /\ NoCam /\ NoLevel /\ NoNla /\ NoSound
    /\ NoGeom /\ NoInPlane /\ NoBodies
    /\ \E n \in 1..MaxNamed :
          /\ meshNames \in [1..n -> CleanNames]
          /\ \A i, j \in 1..n : i # j => meshNames[i] # meshNames[j]
          /\ \E k \in 0..n :
                /\ propPlanes \in [1..k -> [moveable : 1..n, plane : PlaneNames]]
                /\ \A i, j \in 1..k :
                      i # j => propPlanes[i].moveable # propPlanes[j].moveable
    /\ newdata = [m \in 1..Len(meshNames) |-> PlaceholderLine(meshNames[m])]
    /\ pcSubst = "file"

\* write_level_c_h, lines 2213-2220
substitute_placeholders ==
    /\ pcSubst = "file"
    /\ \E d \in {ReplaceMoveables(newdata, meshNames, propPlanes, 1)} :
          newdata' = re_sub(d)
    /\ pcSubst' = "done"
    /\ UNCHANGED <<meshNames, propPlanes>>
    /\ UNCHANGED notSubstVars

NextSubst == substitute_placeholders

SpecSubst == InitSubst /\ [][NextSubst]_vars

(***************************************************************************)
(* Properties of the texture packer and of the export run.                 *)
(***************************************************************************)
\* cells of the placements made on row y in this run
RECURSIVE CellsOnRow(_, _)
CellsOnRow(ps, y) ==
    IF ps = <<>> THEN 0
    ELSE (IF Head(ps).timY = y THEN Head(ps).cells ELSE 0) + CellsOnRow(Tail(ps), y)

\* the columns of a row, from the first texture page to the row's limit, in cells
RowCapacity(y) ==
    (IF y = 0 THEN Row0Limit - InitNextTpage ELSE Row256Limit - InitNextTpage)
        \div CellWidth

RowLimit(y) == IF y = 0 THEN Row0Limit ELSE Row256Limit

Definitions == {i \in 1..Len(body) : body[i].kind = "def"}

\* the names the records of the level file refer to
References ==
    {ref \in UNION {{body[i].refs[j] : j \in 1..Len(body[i].refs)} : i \in 1..Len(body)} :
        ref[1] \notin {"0", "subs_"}}

\* table entry sym declares the name ref (an array is entered with its brackets)
Declares(sym, ref) ==
    sym[3] = ref[2] /\ (sym[2] = ref[1] \/ sym[2] = ref[1] \o "[]")

LevelRecords == {i \in Definitions : body[i].sym = Sym("LEVEL", "fileName", 0)}

\* the level planes that have a NODE record in the level file
NodesWritten == {body[i].sym[3] : i \in {d \in Definitions : body[d].sym[1] = "NODE"}}

SoundBankTypes == {"VAGbank", "XAbank", "XAfiles", "SOUND_OBJECT", "LEVEL_SOUNDS"}

Actors == {k \in 1..Len(scene) : scene[k].isActor}

StripsOf == tmpStripsOf(nla_tracks)

\* two strips overlap
Overlap(a, b) ==
    /\ a # b
    /\ StripsOf[b].frame_start < StripsOf[a].frame_end
    /\ StripsOf[b].frame_end > StripsOf[a].frame_start

\* the strips linked to the strips of G by an overlap, in at most k steps
RECURSIVE Linked(_, _)
Linked(G, k) ==
    IF k = 0 THEN G
    ELSE Linked(G \cup {b \in 1..Len(StripsOf) : \E a \in G : Overlap(a, b)}, k - 1)

\* the groups of overlapping strips: two strips or more, linked by overlaps
Groups ==
    {G \in {Linked({a}, Len(StripsOf)) : a \in 1..Len(StripsOf)} :
        Cardinality(G) >= 2}

C18_BakeIdempotent ==
    [][bakeActionToNLA =>
          /\ action' = NoAction
          /\ action # NoAction =>
                /\ Len(tmpStripsOf(nla_tracks')) = Len(tmpStripsOf(nla_tracks)) + 1
                /\ nla_tracks'[Len(nla_tracks')] =
                      <<[frame_start |-> action.frame_start,
                         frame_end |-> action.frame_end]>>
          /\ (bakes > 0 /\ action = NoAction) => nla_tracks' = nla_tracks]_vars

(***************************************************************************)
(* Properties of the sound stages.                                         *)
(***************************************************************************)
\* C19: the k-th streaming speaker parsed in one export (from 0) is stored
\* with file k div 8 and channel k mod 8: channels stay in 0..7, a file
\* takes eight speakers, and no two speakers share a file and a channel.
C19_RoundRobin ==
    lastXA.made =>
       /\ lastXA.stored
       /\ lastXA.XAfile = lastXA.k \div XAChannels
       /\ lastXA.XAchannel = lastXA.k % XAChannels

\* the samples of the list handed to writeVAGbank, and their paths
Samples == {i \in 1..Len(soundList) : soundList[i].XAsize = None}
SamplePaths == {soundList[i].convertedSoundPath : i \in Samples}

RowsOf(array) == SelectSeq(meshFile, LAMBDA r : r.array = array)

\* C21: when populate_mesh has been called on a mesh, the mesh array holds
\* one row per vertex of the mesh, in vertex order, and so does the normal
\* array.
C21_OneRecordPerVertex ==
    pcGeom = "done" =>
        /\ RowsOf("mesh") =
              [i \in 1..Len(vertices) |-> VertexRow(vertices[i], exp_Scale)]
        /\ RowsOf("normal") =
              [i \in 1..Len(vertices) |-> NormalRow(vertices[i])]

(***************************************************************************)
(* Properties of the containment classifier.                               *)
(***************************************************************************)
Inside(p, o) == p.x1 <= o.x1 /\ o.x2 <= p.x2 /\ p.y1 <= o.y1 /\ o.y2 <= p.y2
Within(v, lo, hi) == lo <= v /\ v <= hi
Meet(lo1, hi1, lo2, hi2) == lo1 <= hi2 /\ lo2 <= hi1

\* the first directional overlap in the order tested: West, East, North, South
FirstOverlap(p, o) ==
    IF Within(p.x1, o.x1, o.x2) /\ Meet(p.y1, p.y2, o.y1, o.y2) THEN 4
    ELSE IF Within(p.x2, o.x1, o.x2) /\ Meet(p.y1, p.y2, o.y1, o.y2) THEN 6
    ELSE IF Within(p.y2, o.y1, o.y2) /\ p.x1 <= o.x1 /\ o.x2 <= p.x2 THEN 8
    ELSE IF Within(p.y1, o.y1, o.y2) /\ p.x1 <= o.x1 /\ o.x2 <= p.x2 THEN 2
    ELSE 0

\* C22: isInPlane returns 1 exactly when the object's box lies inside the
\* plane's box, boundaries included; otherwise it returns the first
\* directional overlap in the order tested, and 0 when there is none.
C22_Classifier ==
    inPlane.returned # None =>
        /\ inPlane.returned = 1 <=> Inside(inPlane.plane, inPlane.obj)
        /\ ~Inside(inPlane.plane, inPlane.obj) =>
              inPlane.returned = FirstOverlap(inPlane.plane, inPlane.obj)

\* an object that touches the plane's boundary from inside was classified
C22_Witness ==
    /\ inPlane.returned = 1
    /\ inPlane.obj # inPlane.plane
    /\ inPlane.obj.x1 = inPlane.plane.x1

(***************************************************************************)
(* Properties of the planes' rigid-body lists.                             *)
(***************************************************************************)
Disjoint(a, b) == a.x2 < b.x1 \/ b.x2 < a.x1 \/ a.y2 < b.y1 \/ b.y2 < a.y1

C29_TwoQuads ==
    camCalls > 0 =>
       /\ camRaised = "none"
       /\ Len(camQuads) = 2
       /\ Count(camQuads, ZeroQuad) = 2 - Len(camPortals)

(***************************************************************************)
(* Properties of the traversal root.                                       *)
(***************************************************************************)
\* C25: when a level plane contains the actor's box, the partitioner ends
\* with the current node pointing to the node of a plane that contains the
\* actor; the current node it writes is never a plane that does not.
C25_RootContainsActor ==
    (pcPart = "done" /\ actorBox # NoBox) =>
       /\ (\E p \in 1..Len(LvlPlanes) : Inside(LvlPlanes[p], actorBox)) =>
             /\ partRaised = "none"
             /\ nodePtr # 0
       /\ (partRaised = "none" /\ nodePtr # 0) =>
             Inside(LvlPlanes[nodePtr], actorBox)

(***************************************************************************)
(* Properties of the sibling lists.                                        *)
(***************************************************************************)
\* two boxes share a boundary segment of positive length
Adjacent(a, b) ==
    \/ (a.x2 = b.x1 \/ a.x1 = b.x2)
       /\ (IF a.y1 > b.y1 THEN a.y1 ELSE b.y1) < (IF a.y2 < b.y2 THEN a.y2 ELSE b.y2)
    \/ (a.y2 = b.y1 \/ a.y1 = b.y2)
       /\ (IF a.x1 > b.x1 THEN a.x1 ELSE b.x1) < (IF a.x2 < b.x2 THEN a.x2 ELSE b.x2)

\* C30: in the sibling lists written for a plane, another plane appears at
\* most once over the four sides and only when the two planes share a
\* boundary segment of positive length, and the SIBLINGS record of every
\* plane is written with as many siblings as the plane has adjacent planes.
C30_SiblingsAreAdjacentPlanes ==
    pcPart = "done" =>
       \A p \in 1..Len(LvlPlanes) :
          /\ \A q \in 1..Len(LvlPlanes) :
                /\ EntriesFor(p, q) <= 1
                /\ EntriesFor(p, q) = 1 =>
                      (p # q /\ Adjacent(LvlPlanes[p], LvlPlanes[q]))
          /\ p <= Len(nodes)
          /\ Len(nodes[p].N) + Len(nodes[p].S) + Len(nodes[p].W) + Len(nodes[p].E)
                = Cardinality({q \in 1..Len(LvlPlanes) :
                                  q # p /\ Adjacent(LvlPlanes[p], LvlPlanes[q])})

IsStream(sound) == sound.XAfile # None

====
